---- MODULE Spec2Model ----
(***************************************************************************)
(* A model of the mock-interview engine of prep-buddy: the cross-tab       *)
(* session lock (storage service), the interview flow controller           *)
(* (useInterviewFlow), the question timer (useQuestionTimer) and the       *)
(* transcript aggregation of the interview panel.                          *)
(*                                                                         *)
(* Every browser tab runs one flow controller.  The tabs share the         *)
(* localStorage lock record and the origin's Web Lock.  A tab's JavaScript *)
(* runs to the next await in one step; steps of different tabs interleave. *)
(* Time is the wall clock Date.now() in milliseconds; a setTimeout fires   *)
(* at or after its delay.                                                  *)
(***************************************************************************)
EXTENDS Integers, Sequences, FiniteSets, TLC

\* ------------------------------------------------------------------ bounds
NumTabs == 2
MaxAttempts == 4
MaxPanelAttempts == 3
MaxQuestions == 2
MaxPanelChars == 1
MaxSessions == 3
MaxAdvance == 3
MaxReloads == 1
MaxLateTicks == 1
MaxSpans == 2
MaxFragLen == 2
MaxChars == 3
MaxSkills == 2
MaxSaves == 2
MaxResumeTime == 2
MaxAudioAttempts == 2
MaxPayloads == 2
MaxAudioTime == 2
MaxAudioLen == 2
MaxCompletes == 2
MaxDuration == 120

\* ------------------------------------------------------- program constants
LOCK_TIMEOUT_MS == 2 * 60 * 60 * 1000
SETTLE_MS == 100
VERIFY_MS == 50
REFRESH_MS == 60000
QUESTION_TIMEOUT_MINUTES == 3
QUESTION_TIME_LIMIT_MS == QUESTION_TIMEOUT_MINUTES * 60 * 1000
WRAP_UP_WARNING_THRESHOLD_MS == 30 * 1000
TICK_MS == 1000

Tabs == 1..NumTabs
NoTab == 0
NoId == 0
NoLock == [sessionId |-> NoId, lockedAt |-> 0]

VARIABLES
  now,               \* Date.now()
  supportsWebLocks,  \* 'locks' in navigator
  lock,              \* localStorage[LOCK_KEY], NoLock when absent
  webLockHolder,     \* the tab holding the Web Lock LOCK_KEY, or NoTab
  activeLockRelease, \* per tab: the module variable is non-null
  nextId,            \* session ids generated so far
  owner,             \* per session id: the tab that generated it
  flowState,         \* per tab: useInterviewFlow's flowState
  pc,                \* per tab: the await the tab's handler is suspended at
  sessionId,         \* per tab: the controller's sessionId state
  newSessionId,      \* per tab: handleStartInterview's newSessionId
  ourLock,           \* per tab: acquireLockWithLocalStorage's ourLock
  waitFrom,          \* per tab: when the pending setTimeout was set
  holders,           \* ids whose acquireLock returned true, not yet released, their page still loaded
  forced,            \* a force release has cleared a record
  staleCleared,      \* a stale record has been cleared
  reloads,           \* page reloads so far
  raceIds,           \* the two ids of acquireLock calls that both passed the check before either wrote
  sawStale,          \* per tab: its acquireLock call cleared a stale record, no other call in flight
  blockedBy,         \* per tab: the session id of the record that made its acquireLock check return false
  lastStart          \* per tab: the flow state its last handleStartInterview was invoked from

VARIABLES
  questionStartTime, \* useQuestionTimer: the questionStartTime state (the anchor)
  closureStart,      \* the questionStartTime the running interval's closure captured
  intervalOn,        \* the timer effect's interval exists
  intervalSetAt,     \* when that interval was set
  isActive,          \* useQuestionTimer's isActive option
  isPaused,          \* useQuestionTimer's isPaused option
  timeUpTriggeredRef,       \* timeUpTriggeredRef.current
  wrapUpWarningTriggeredRef,\* wrapUpWarningTriggeredRef.current
  questionElapsed,   \* the questionElapsed state (displayed)
  timeUpCalls,       \* onTimeUp calls since the last resetTimer()
  wrapUpCalls,       \* onWrapUpWarning calls since the last resetTimer()
  timeUpEarly,       \* onTimeUp was called with now - anchor < limit
  timeUpMissed,      \* an evaluated tick with now - anchor >= limit did not call onTimeUp
  wrapUpEarly,       \* onWrapUpWarning was called with more than the threshold remaining
  wrapUpMissed,      \* an evaluated tick within the threshold, none called yet, did not call it
  wrapUpAfterTimeUp, \* onWrapUpWarning was called after onTimeUp in one cycle
  idleFor            \* the time that passed with no interval since the last resetTimer()

timerVars == <<questionStartTime, closureStart, intervalOn, intervalSetAt, isActive, isPaused,
               timeUpTriggeredRef, wrapUpWarningTriggeredRef, questionElapsed,
               timeUpCalls, wrapUpCalls, timeUpEarly, timeUpMissed, wrapUpEarly,
               wrapUpMissed, wrapUpAfterTimeUp, idleFor>>

VARIABLES
  inputBufferRef,    \* useTranscriptManager: inputBufferRef.current
  outputBufferRef,   \* outputBufferRef.current
  transcript,        \* the transcript state
  showTranscript,    \* the showTranscript state
  unreadMessages,    \* the unreadMessages state
  received,          \* the user fragments delivered since the user buffer was last emptied
  runFrags,          \* how many fragments those are
  heard,             \* the user text of the run as the last step met it, before any flush
  flushedText,       \* the fragments, concatenated, that the last step's fragment flushed
  flushedFrags,      \* how many fragments those are (0: the last step flushed none so)
  grew,              \* how many messages the last step appended
  charsSeen          \* characters delivered so far on both channels

transcriptVars == <<inputBufferRef, outputBufferRef, transcript, showTranscript,
                    unreadMessages, received, runFrags, heard, flushedText, flushedFrags,
                    grew, charsSeen>>

VARIABLES
  duration,          \* the flow's duration state, in minutes
  targetQuestions,   \* generateInterviewQuestions: the number of questions asked for
  requestedFor       \* the durationMinutes of that request (-1: none yet)

requestVars == <<duration, targetQuestions, requestedFor>>

VARIABLES
  resumes,           \* the resumes object store: the StoredResume records, keyed by id
  resumeSaves        \* how many saveResume calls have run their transaction

resumeVars == <<resumes, resumeSaves>>

VARIABLES
  wasEarly,          \* per tab: the wasEarly argument of its handleInterviewEnd call
  analyzed,          \* per tab: how analyzeInterviewSession settled ("none" before)
  savedStatus,       \* per tab: the status of the stored record of its current session
  sessions           \* the session store: per session id the status of its record

endVars == <<wasEarly, analyzed, savedStatus, sessions>>

VARIABLES
  activeRef,         \* useInterviewSession: activeRef.current
  sessionClosingRef, \* sessionClosingRef.current
  sessionRef,        \* sessionRef.current: the attempt whose session promise it holds (0: null)
  inputContextRef,   \* inputContextRef.current: the attempt that created the context (0: null)
  outputContextRef,  \* outputContextRef.current, likewise
  streamRef,         \* streamRef.current: the attempt whose capture stream it holds (0: null)
  processorRef,      \* processorRef.current: the attempt whose onopen built it (0: null)
  sourceRef,         \* sourceRef.current, likewise
  audioSourcesRef,   \* audioSourcesRef.current: how many playback sources it holds
  nextStartTimeRef,  \* nextStartTimeRef.current: 0, or 1 for a cursor ahead of 0
  isConnected,       \* the isConnected state
  error,             \* the error state ("none": null)
  showMicRecovery,   \* the showMicRecovery state
  attempt,           \* per startSession call that passed its guard: where it stands
  ctxClosed,         \* the attempts whose audio contexts are closed
  decoding,          \* the attempt on whose output context a decodeAudioData is awaited (0: none)
  pending,           \* per attempt: the callbacks queued on its unsettled session promise
  sent,              \* what the last step delivered to remote sessions, in order
  stopLeftClean,     \* every stopSession() so far returned with everything torn down
  tornDown,          \* the attempts that stopSession() found suspended in getUserMedia
  liveStreams,       \* the attempts whose capture stream has tracks that were not stopped
  openContexts,      \* the attempts whose audio contexts were created and not closed
  capturing,         \* the attempts whose script processor is connected in an open context
  isMicOn,           \* MockInterviewPanel: the isMicOn state
  isMicOnRef,        \* isMicOnRef.current
  lastFrame,         \* the last onaudioprocess call: the attempt, what it saw, what became of the frame
  currentTime,       \* per attempt: ctx.currentTime of the output context it created
  arrived,           \* how many audio payloads onmessage has met
  decodes,           \* the payloads whose decodeAudioData is awaited, each with the context captured
  playback,          \* the buffer sources created so far, each with its start and end on its context
  completes          \* how many [INTERVIEW_COMPLETE] directives the remote sessions were delivered

hookVars == <<activeRef, sessionClosingRef, sessionRef, inputContextRef, outputContextRef,
              streamRef, processorRef, sourceRef, audioSourcesRef, nextStartTimeRef,
              isConnected, error, showMicRecovery, attempt, ctxClosed, decoding,
              pending, sent, stopLeftClean, tornDown, liveStreams, openContexts,
              capturing, isMicOn, isMicOnRef, lastFrame, currentTime, arrived,
              decodes, playback, completes>>

VARIABLES
  mounted,                 \* MockInterviewPanel is mounted
  dirty,                   \* a state update awaits its render and effects
  urgent,                  \* the update came from a click: render and effects run before anything else
  lifecyclePaused,         \* the isPaused the lifecycle effect last ran with ("unmounted": it never ran)
  sessionDataRef,          \* sessionDataRef.current
  prevQuestionIndexRef,    \* prevQuestionIndexRef.current
  questions,               \* useInterviewFlow: the questions state
  currentQuestionIndex,    \* the currentQuestionIndex state
  currentQuestionIndexRef, \* currentQuestionIndexRef.current
  exhausted                \* the final question's timer expired

panelVars == <<mounted, dirty, urgent, lifecyclePaused, sessionDataRef, prevQuestionIndexRef,
               questions, currentQuestionIndex, currentQuestionIndexRef, exhausted>>

\* What the timer actions and the transcript actions leave alone besides the
\* lock and each other.
nonTranscriptVars == <<requestVars, resumeVars, endVars, hookVars, panelVars>>
nonTimerVars == <<transcriptVars, nonTranscriptVars>>

\* Everything the lock and flow actions leave alone.
nonLockVars == <<timerVars, nonTimerVars>>

\* The same without the stored record, for the actions that store it.
nonFlowVars == <<timerVars, transcriptVars, requestVars, resumeVars, hookVars, panelVars>>

lockVars == <<now, supportsWebLocks, lock, webLockHolder, activeLockRelease,
              nextId, owner, flowState, pc, sessionId, newSessionId, ourLock,
              waitFrom, holders, forced, staleCleared, reloads,
              raceIds, sawStale, blockedBy, lastStart>>

hist == <<raceIds, sawStale, blockedBy, lastStart>>

\* The lock and flow variables other than the clock.
lockRest == <<supportsWebLocks, lock, webLockHolder, activeLockRelease,
              nextId, owner, flowState, pc, sessionId, newSessionId, ourLock,
              waitFrom, holders, forced, staleCleared, reloads, hist>>

vars == <<lockVars, timerVars, transcriptVars, requestVars, resumeVars, endVars, hookVars,
          panelVars>>

\* the awaits inside acquireLock
AcqPcs == {"acq_request", "acq_write", "acq_settle", "acq_verify"}

\* ------------------------------------------------------------- lock service

\* getLock() !== null
HasLock == lock.sessionId # NoId

\* Date.now() - existing.lockedAt >= LOCK_TIMEOUT_MS
IsStale(l) == now - l.lockedAt >= LOCK_TIMEOUT_MS

\* isBlocked(): a record exists and is not stale (a stale one is cleared)
IsBlockedResult == HasLock /\ ~IsStale(lock)

\* getBlockingSessionId()
GetBlockingSessionId == IF HasLock /\ ~IsStale(lock) THEN lock.sessionId ELSE NoId

\* the check with the staleness comparison inverted
AcquireBlocked_StaleOnly(id) == HasLock /\ lock.sessionId # id /\ IsStale(lock)

\* the first check of acquireLock(id): blocked by an active session
AcquireBlocked(id) == HasLock /\ lock.sessionId # id /\ ~IsStale(lock)


\* the conflict resolution had the later record win
WeWin_LaterWins(ours, current) ==
  \/ ours.lockedAt > current.lockedAt
  \/ (ours.lockedAt = current.lockedAt /\ ours.sessionId < current.sessionId)

\* the conflict resolution of acquireLockWithLocalStorage
WeWin(ours, current) ==
  \/ ours.lockedAt < current.lockedAt
  \/ (ours.lockedAt = current.lockedAt /\ ours.sessionId < current.sessionId)

\* releaseLock(id) called in tab t: the record, the Web Lock, activeLockRelease
ReleaseMatches(id) == HasLock /\ lock.sessionId = id
LockAfterRelease(id) == IF ReleaseMatches(id) THEN NoLock ELSE lock
HolderAfterRelease(t, id) ==
  IF ReleaseMatches(id) /\ activeLockRelease[t] /\ webLockHolder = t
  THEN NoTab ELSE webLockHolder
ReleaseFnAfterRelease(t, id) ==
  IF ReleaseMatches(id) THEN [activeLockRelease EXCEPT ![t] = FALSE]
  ELSE activeLockRelease

\* the record rewritten whoever holds it
RefreshLockOutcome_Unconditional(id) ==
  [ok |-> TRUE, lock |-> [sessionId |-> id, lockedAt |-> now]]

\* refreshLock(id): what it returns and the record it leaves
RefreshLockOutcome(id) ==
  IF ReleaseMatches(id)
  THEN [ok |-> TRUE, lock |-> [sessionId |-> id, lockedAt |-> now]]
  ELSE [ok |-> FALSE, lock |-> lock]

\* --------------------------------------------------------- flow controller

\* The timer before the panel is mounted.
TimerIdle ==
  /\ questionStartTime = 0
  /\ closureStart = 0
  /\ intervalOn = FALSE
  /\ intervalSetAt = 0
  /\ isActive = FALSE
  /\ isPaused = FALSE
  /\ timeUpTriggeredRef = FALSE
  /\ wrapUpWarningTriggeredRef = FALSE
  /\ questionElapsed = 0
  /\ timeUpCalls = 0
  /\ wrapUpCalls = 0
  /\ timeUpEarly = FALSE
  /\ timeUpMissed = FALSE
  /\ wrapUpEarly = FALSE
  /\ wrapUpMissed = FALSE
  /\ wrapUpAfterTimeUp = FALSE
  /\ idleFor = 0

\* useTranscriptManager as mounted: empty buffers, empty transcript, shown.
TranscriptIdle ==
  /\ inputBufferRef = <<>>
  /\ outputBufferRef = <<>>
  /\ transcript = <<>>
  /\ showTranscript = TRUE
  /\ unreadMessages = 0
  /\ received = <<>>
  /\ runFrags = 0
  /\ heard = <<>>
  /\ flushedText = <<>>
  /\ flushedFrags = 0
  /\ grew = 0
  /\ charsSeen = 0

\* No session record stored, no interview ended.
EndIdle ==
  /\ wasEarly = [t \in Tabs |-> FALSE]
  /\ analyzed = [t \in Tabs |-> "none"]
  /\ savedStatus = [t \in Tabs |-> "none"]
  /\ sessions = [i \in 1..(MaxSessions + 1) |-> "none"]

Max(a, b) == IF a >= b THEN a ELSE b
Min(a, b) == IF a <= b THEN a ELSE b

Attempts == 1..MaxAttempts
NoAttempt == 0

\* useInterviewSession before its first startSession, but for the attempts.
\* No onaudioprocess call yet.
NoFrame ==
  [to |-> 0, outcome |-> "none", active |-> FALSE, closing |-> FALSE,
   micRef |-> FALSE, mic |-> FALSE, status |-> "new"]

HookRefsIdle ==
  /\ activeRef = FALSE
  /\ sessionClosingRef = FALSE
  /\ sessionRef = NoAttempt
  /\ inputContextRef = NoAttempt
  /\ outputContextRef = NoAttempt
  /\ streamRef = NoAttempt
  /\ processorRef = NoAttempt
  /\ sourceRef = NoAttempt
  /\ audioSourcesRef = 0
  /\ nextStartTimeRef = 0
  /\ isConnected = FALSE
  /\ error = "none"
  /\ showMicRecovery = FALSE
  /\ ctxClosed = {}
  /\ decoding = NoAttempt
  /\ pending = [a \in Attempts |-> <<>>]
  /\ sent = <<>>
  /\ stopLeftClean = TRUE
  /\ tornDown = {}
  /\ liveStreams = {}
  /\ openContexts = {}
  /\ capturing = {}
  /\ isMicOn = TRUE
  /\ isMicOnRef = TRUE
  /\ lastFrame = NoFrame
  /\ currentTime = [a \in Attempts |-> 0]
  /\ arrived = 0
  /\ decodes = {}
  /\ playback = {}
  /\ completes = 0

\* The hook before its first startSession, in a run that starts at most k
\* sessions: the attempts beyond k are never made.
HookIdleFor(k) ==
  /\ HookRefsIdle
  /\ attempt = [a \in Attempts |-> IF a <= k THEN "new" ELSE "over"]

HookIdle == HookIdleFor(MaxAttempts)

\* No panel mounted, no questions generated.
PanelIdle ==
  /\ mounted = FALSE
  /\ dirty = FALSE
  /\ urgent = FALSE
  /\ lifecyclePaused = "unmounted"
  /\ sessionDataRef = [questions |-> <<>>, currentQuestionIndex |-> 0,
                       transcript |-> <<>>, hasConnectedBefore |-> FALSE]
  /\ prevQuestionIndexRef = 0
  /\ questions = <<>>
  /\ currentQuestionIndex = 0
  /\ currentQuestionIndexRef = 0
  /\ exhausted = FALSE

\* No questions requested yet; the duration state starts at 30.
DEFAULT_DURATION == 30
RequestIdle ==
  /\ duration = DEFAULT_DURATION
  /\ targetQuestions = 0
  /\ requestedFor = -1

\* No resume saved yet.
ResumesIdle ==
  /\ resumes = {}
  /\ resumeSaves = 0

\* The lock and the flow controllers before any tab has mounted.
LockIdle(webLocks) ==
  /\ now = 0
  /\ supportsWebLocks = webLocks
  /\ lock = NoLock
  /\ webLockHolder = NoTab
  /\ activeLockRelease = [t \in Tabs |-> FALSE]
  /\ nextId = 0
  /\ owner = [i \in 1..(MaxSessions + 1) |-> NoTab]
  /\ flowState = [t \in Tabs |-> "INITIAL"]
  /\ pc = [t \in Tabs |-> "idle"]
  /\ sessionId = [t \in Tabs |-> NoId]
  /\ newSessionId = [t \in Tabs |-> NoId]
  /\ ourLock = [t \in Tabs |-> NoLock]
  /\ waitFrom = [t \in Tabs |-> 0]
  /\ holders = {}
  /\ forced = FALSE
  /\ staleCleared = FALSE
  /\ reloads = 0
  /\ raceIds = {}
  /\ sawStale = [t \in Tabs |-> FALSE]
  /\ blockedBy = [t \in Tabs |-> NoId]
  /\ lastStart = [t \in Tabs |-> "none"]

Init ==
  /\ \E webLocks \in BOOLEAN : LockIdle(webLocks)
  /\ TimerIdle
  /\ TranscriptIdle
  /\ RequestIdle
  /\ ResumesIdle
  /\ EndIdle
  /\ HookIdle
  /\ PanelIdle

\* The clock advances by the verify delay or by the staleness timeout.  Network
\* calls, storage requests and the settle timers end long before the staleness
\* timeout, so the long advance happens only while no handler is suspended; and
\* over it the refresh interval of an interview in progress has fired, the last
\* time within REFRESH_MS of its end: refreshLock(sessionId) rewrites the record
\* when it is the interview's own.
Advance(d) ==
  /\ (now % LOCK_TIMEOUT_MS) \div VERIFY_MS + now \div LOCK_TIMEOUT_MS < MaxAdvance
  /\ d >= REFRESH_MS => \A t \in Tabs : pc[t] = "idle"
  /\ now' = now + d
  /\ lock' = IF /\ d >= REFRESH_MS
                /\ HasLock
                /\ \E t \in Tabs : flowState[t] = "INTERVIEWING" /\ sessionId[t] = lock.sessionId
             THEN [sessionId |-> lock.sessionId, lockedAt |-> now + d]
             ELSE lock
  /\ UNCHANGED <<supportsWebLocks, webLockHolder, activeLockRelease, nextId,
                 owner, flowState, pc, sessionId, newSessionId, ourLock, waitFrom,
                 holders, forced, staleCleared, reloads, hist>>
  /\ UNCHANGED nonLockVars

\* The mount effect: isBlocked() (which clears a stale record), then
\* getBlockingSessionId(); BLOCKED or UPLOAD.
MountCheck(t) ==
  /\ flowState[t] = "INITIAL"
  /\ lock' = IF HasLock /\ IsStale(lock) THEN NoLock ELSE lock
  /\ staleCleared' = (staleCleared \/ (HasLock /\ IsStale(lock)))
  /\ flowState' = [flowState EXCEPT
                     ![t] = IF IsBlockedResult /\ GetBlockingSessionId # NoId
                            THEN "BLOCKED" ELSE "UPLOAD"]
  /\ UNCHANGED <<now, supportsWebLocks, webLockHolder, activeLockRelease, nextId,
                 owner, pc, sessionId, newSessionId, ourLock, waitFrom, holders,
                 forced, reloads, hist>>
  /\ UNCHANGED nonLockVars

\* handleSelectSavedResume: a stored resume is chosen, UPLOAD -> REVIEW.
\* (Parsing an uploaded text, UPLOAD -> PARSING -> REVIEW | PARSE_ERROR, touches
\* none of the state modelled here and is left out.)
HandleSelectSavedResume(t) ==
  /\ flowState[t] = "UPLOAD"
  /\ pc[t] = "idle"
  /\ flowState' = [flowState EXCEPT ![t] = "REVIEW"]
  /\ UNCHANGED <<now, supportsWebLocks, lock, webLockHolder, activeLockRelease,
                 nextId, owner, pc, sessionId, newSessionId, ourLock, waitFrom,
                 holders, forced, staleCleared, reloads, hist>>
  /\ UNCHANGED nonLockVars

\* handleResumeConfirm: to SETUP (from REVIEW, or "Go Back" from GEN_ERROR).
HandleResumeConfirm(t) ==
  /\ flowState[t] \in {"REVIEW", "GEN_ERROR"}
  /\ pc[t] = "idle"
  /\ flowState' = [flowState EXCEPT ![t] = "SETUP"]
  /\ UNCHANGED <<now, supportsWebLocks, lock, webLockHolder, activeLockRelease,
                 nextId, owner, pc, sessionId, newSessionId, ourLock, waitFrom,
                 holders, forced, staleCleared, reloads, hist>>
  /\ UNCHANGED nonLockVars

\* the session id was the tab's last one again
GenerateSessionId_Reused == IF nextId = 0 THEN 1 ELSE nextId

\* generateSessionId: an id no earlier call returned.
GenerateSessionId == nextId + 1

\* handleStartInterview up to its first suspension: GENERATING, a fresh session
\* id, and acquireLock's check of the stored record.  A record of another
\* session that is not stale makes acquireLock return false (BLOCKED); a stale
\* one is cleared.
HandleStartInterview(t) ==
  /\ flowState[t] \in {"SETUP", "GEN_ERROR"}
  /\ pc[t] = "idle"
  /\ nextId < MaxSessions
  /\ lastStart' = [lastStart EXCEPT ![t] = flowState[t]]
  /\ LET id == GenerateSessionId IN
     /\ nextId' = id
     /\ owner' = [owner EXCEPT ![id] = t]
     /\ newSessionId' = [newSessionId EXCEPT ![t] = id]
     /\ IF AcquireBlocked(id)
        THEN /\ flowState' = [flowState EXCEPT ![t] = "BLOCKED"]
             /\ blockedBy' = [blockedBy EXCEPT ![t] = lock.sessionId]
             /\ sawStale' = [sawStale EXCEPT ![t] = FALSE]
             /\ UNCHANGED <<lock, pc, staleCleared, raceIds>>
        ELSE /\ flowState' = [flowState EXCEPT ![t] = "GENERATING"]
             /\ lock' = IF HasLock /\ lock.sessionId # id THEN NoLock ELSE lock
             /\ staleCleared' = (staleCleared \/ (HasLock /\ lock.sessionId # id))
             /\ pc' = [pc EXCEPT ![t] = IF supportsWebLocks THEN "acq_request"
                                        ELSE "acq_write"]
             /\ raceIds' = IF \E u \in Tabs \ {t} : pc[u] = "acq_write"
                           THEN {id} \cup {newSessionId[u] : u \in {v \in Tabs \ {t} : pc[v] = "acq_write"}}
                           ELSE raceIds
             /\ sawStale' = [u \in Tabs |->
                               IF u = t
                               THEN HasLock /\ lock.sessionId # id
                                    /\ \A v \in Tabs \ {t} : pc[v] \notin AcqPcs
                               ELSE sawStale[u] /\ pc[u] \notin AcqPcs]
             /\ UNCHANGED blockedBy
  /\ UNCHANGED <<now, supportsWebLocks, webLockHolder, activeLockRelease,
                 sessionId, ourLock, waitFrom, holders, forced, reloads>>
  /\ UNCHANGED nonLockVars

\* What handleStartInterview does when acquireLock has returned.
AcquireReturns(t, result) ==
  /\ ourLock' = [ourLock EXCEPT ![t] = NoLock]
  /\ waitFrom' = [waitFrom EXCEPT ![t] = 0]
  /\ IF result
     THEN /\ sessionId' = [sessionId EXCEPT ![t] = newSessionId[t]]
          /\ holders' = holders \cup {newSessionId[t]}
          /\ pc' = [pc EXCEPT ![t] = "generate"]
          /\ UNCHANGED flowState
     ELSE /\ flowState' = [flowState EXCEPT ![t] = "BLOCKED"]
          /\ pc' = [pc EXCEPT ![t] = "idle"]
          /\ UNCHANGED <<sessionId, holders>>

\* acquireLockWithWebLocks: the callback of navigator.locks.request with
\* ifAvailable; granted only when no tab holds the lock.
WebLockCallback(t) ==
  /\ pc[t] = "acq_request"
  /\ IF webLockHolder = NoTab
     THEN /\ webLockHolder' = t
          /\ lock' = [sessionId |-> newSessionId[t], lockedAt |-> now]
          /\ activeLockRelease' = [activeLockRelease EXCEPT ![t] = TRUE]
          /\ AcquireReturns(t, TRUE)
     ELSE /\ UNCHANGED <<webLockHolder, lock, activeLockRelease>>
          /\ AcquireReturns(t, FALSE)
  /\ UNCHANGED <<now, supportsWebLocks, nextId, owner, newSessionId, forced,
                 staleCleared, reloads, hist>>
  /\ UNCHANGED nonLockVars

\* acquireLockWithLocalStorage: write our record, start the settle wait.
StorageWrite(t) ==
  /\ pc[t] = "acq_write"
  /\ ourLock' = [ourLock EXCEPT ![t] = [sessionId |-> newSessionId[t], lockedAt |-> now]]
  /\ lock' = [sessionId |-> newSessionId[t], lockedAt |-> now]
  /\ waitFrom' = [waitFrom EXCEPT ![t] = now]
  /\ pc' = [pc EXCEPT ![t] = "acq_settle"]
  /\ UNCHANGED <<now, supportsWebLocks, webLockHolder, activeLockRelease, nextId,
                 owner, flowState, sessionId, newSessionId, holders, forced,
                 staleCleared, reloads, hist>>
  /\ UNCHANGED nonLockVars

\* acquireLockWithLocalStorage after the settle wait: re-read and resolve.
StorageSettle(t) ==
  /\ pc[t] = "acq_settle"
  /\ now >= waitFrom[t] + SETTLE_MS
  /\ IF ~HasLock
     THEN /\ AcquireReturns(t, FALSE)
          /\ UNCHANGED lock
     ELSE IF lock.sessionId = newSessionId[t]
     THEN /\ AcquireReturns(t, TRUE)
          /\ UNCHANGED lock
     ELSE IF WeWin(ourLock[t], lock)
     THEN /\ lock' = ourLock[t]
          /\ waitFrom' = [waitFrom EXCEPT ![t] = now]
          /\ pc' = [pc EXCEPT ![t] = "acq_verify"]
          /\ UNCHANGED <<flowState, sessionId, holders, ourLock>>
     ELSE /\ AcquireReturns(t, FALSE)
          /\ UNCHANGED lock
  /\ UNCHANGED <<now, supportsWebLocks, webLockHolder, activeLockRelease, nextId,
                 owner, newSessionId, forced, staleCleared, reloads, hist>>
  /\ UNCHANGED nonLockVars

\* acquireLockWithLocalStorage after the verify wait.
StorageVerify(t) ==
  /\ pc[t] = "acq_verify"
  /\ now >= waitFrom[t] + VERIFY_MS
  /\ AcquireReturns(t, HasLock /\ lock.sessionId = newSessionId[t])
  /\ UNCHANGED <<now, supportsWebLocks, lock, webLockHolder, activeLockRelease,
                 nextId, owner, newSessionId, forced, staleCleared, reloads, hist>>
  /\ UNCHANGED nonLockVars

\* generateInterviewQuestions resolves (ok) or rejects (GEN_ERROR).
GenerateDone(t, ok) ==
  /\ pc[t] = "generate"
  /\ IF ok
     THEN /\ pc' = [pc EXCEPT ![t] = "save_resume"]
          /\ UNCHANGED flowState
     ELSE /\ pc' = [pc EXCEPT ![t] = "idle"]
          /\ flowState' = [flowState EXCEPT ![t] = "GEN_ERROR"]
  /\ UNCHANGED <<now, supportsWebLocks, lock, webLockHolder, activeLockRelease,
                 nextId, owner, sessionId, newSessionId, ourLock, waitFrom,
                 holders, forced, staleCleared, reloads, hist>>
  /\ UNCHANGED nonLockVars

\* saveResume resolves (ok) or rejects (GEN_ERROR).
SaveResumeDone(t, ok) ==
  /\ pc[t] = "save_resume"
  /\ IF ok
     THEN /\ pc' = [pc EXCEPT ![t] = "save_session"]
          /\ UNCHANGED flowState
     ELSE /\ pc' = [pc EXCEPT ![t] = "idle"]
          /\ flowState' = [flowState EXCEPT ![t] = "GEN_ERROR"]
  /\ UNCHANGED <<now, supportsWebLocks, lock, webLockHolder, activeLockRelease,
                 nextId, owner, sessionId, newSessionId, ourLock, waitFrom,
                 holders, forced, staleCleared, reloads, hist>>
  /\ UNCHANGED nonLockVars

\* saveSession: store.put of the record under its id.
Put(id, status) == [sessions EXCEPT ![id] = status]

\* The session record handleStartInterview saves before the interview.
InitialSnapshot ==
  [status |-> "in-progress", currentQuestionIndex |-> 0, transcript |-> <<>>]

\* the interview began whether or not the snapshot was saved
SaveSessionDone_IgnoresFailure(t, ok) ==
  /\ pc[t] = "save_session"
  /\ pc' = [pc EXCEPT ![t] = "idle"]
  /\ flowState' = [flowState EXCEPT ![t] = "INTERVIEWING"]
  /\ savedStatus' = [savedStatus EXCEPT ![t] = IF ok THEN "in-progress" ELSE @]
  /\ sessions' = IF ok THEN Put(newSessionId[t], InitialSnapshot.status) ELSE sessions
  /\ UNCHANGED <<wasEarly, analyzed>>
  /\ UNCHANGED <<now, supportsWebLocks, lock, webLockHolder, activeLockRelease,
                 nextId, owner, sessionId, newSessionId, ourLock, waitFrom,
                 holders, forced, staleCleared, reloads, hist>>
  /\ UNCHANGED nonFlowVars

\* saveSession of the initial snapshot resolves (INTERVIEWING) or rejects.
SaveSessionDone(t, ok) ==
  /\ pc[t] = "save_session"
  /\ pc' = [pc EXCEPT ![t] = "idle"]
  /\ flowState' = [flowState EXCEPT ![t] = IF ok THEN "INTERVIEWING" ELSE "GEN_ERROR"]
  /\ savedStatus' = [savedStatus EXCEPT ![t] = IF ok THEN "in-progress" ELSE @]
  /\ sessions' = IF ok THEN Put(newSessionId[t], InitialSnapshot.status) ELSE sessions
  /\ UNCHANGED <<wasEarly, analyzed>>
  /\ UNCHANGED <<now, supportsWebLocks, lock, webLockHolder, activeLockRelease,
                 nextId, owner, sessionId, newSessionId, ourLock, waitFrom,
                 holders, forced, staleCleared, reloads, hist>>
  /\ UNCHANGED nonFlowVars

\* The refresh interval of an interview, set while flowState is INTERVIEWING
\* and sessionId is set: refreshLock(sessionId), its result dropped.
RefreshLock(t) ==
  /\ flowState[t] = "INTERVIEWING"
  /\ sessionId[t] # NoId
  /\ lock' = RefreshLockOutcome(sessionId[t]).lock
  /\ UNCHANGED <<now, supportsWebLocks, webLockHolder, activeLockRelease, nextId,
                 owner, flowState, pc, sessionId, newSessionId, ourLock, waitFrom,
                 holders, forced, staleCleared, reloads, hist>>
  /\ UNCHANGED nonLockVars

\* handleInterviewEnd(finalTranscript, early) up to its first suspension:
\* ANALYZING, feedback awaited.
InterviewEndBegins(t, early) ==
  /\ flowState[t] = "INTERVIEWING"
  /\ pc[t] = "idle"
  /\ flowState' = [flowState EXCEPT ![t] = "ANALYZING"]
  /\ pc' = [pc EXCEPT ![t] = "analyze"]
  /\ wasEarly' = [wasEarly EXCEPT ![t] = early]
  /\ analyzed' = [analyzed EXCEPT ![t] = "none"]
  /\ UNCHANGED <<savedStatus, sessions>>
  /\ UNCHANGED <<now, supportsWebLocks, lock, webLockHolder, activeLockRelease,
                 nextId, owner, sessionId, newSessionId, ourLock, waitFrom,
                 holders, forced, staleCleared, reloads, hist>>

\* The panel's handleEndInterview is its only caller:
\* onEndInterview(transcript, true).
HandleInterviewEnd(t) ==
  /\ InterviewEndBegins(t, TRUE)
  /\ UNCHANGED nonFlowVars

\* analyzeInterviewSession resolves (the final save follows) or rejects (the
\* catch block's save follows).
AnalyzeDone(t, ok) ==
  /\ pc[t] = "analyze"
  /\ pc' = [pc EXCEPT ![t] = IF ok THEN "save_final" ELSE "save_fallback"]
  /\ analyzed' = [analyzed EXCEPT ![t] = IF ok THEN "ok" ELSE "failed"]
  /\ UNCHANGED <<wasEarly, savedStatus, sessions>>
  /\ UNCHANGED <<now, supportsWebLocks, lock, webLockHolder, activeLockRelease,
                 nextId, owner, flowState, sessionId, newSessionId, ourLock,
                 waitFrom, holders, forced, staleCleared, reloads, hist>>
  /\ UNCHANGED nonFlowVars

\* The tail of handleInterviewEnd: releaseLock(currentSessionId), COMPLETE.
ReleaseAndComplete(t) ==
  /\ lock' = LockAfterRelease(sessionId[t])
  /\ webLockHolder' = HolderAfterRelease(t, sessionId[t])
  /\ activeLockRelease' = ReleaseFnAfterRelease(t, sessionId[t])
  /\ holders' = holders \ {sessionId[t]}
  /\ flowState' = [flowState EXCEPT ![t] = "COMPLETE"]
  /\ pc' = [pc EXCEPT ![t] = "idle"]

\* status: wasEarly ? 'incomplete' : 'completed'
FinalStatus(early) == IF early THEN "incomplete" ELSE "completed"

\* saveSession of the final record resolves, or rejects into the catch block.
SaveFinalDone(t, ok) ==
  /\ pc[t] = "save_final"
  /\ IF ok
     THEN /\ ReleaseAndComplete(t)
          /\ savedStatus' = [savedStatus EXCEPT ![t] = FinalStatus(wasEarly[t])]
          /\ sessions' = Put(sessionId[t], FinalStatus(wasEarly[t]))
     ELSE /\ pc' = [pc EXCEPT ![t] = "save_fallback"]
          /\ UNCHANGED <<lock, webLockHolder, activeLockRelease, holders, flowState>>
          /\ UNCHANGED <<savedStatus, sessions>>
  /\ UNCHANGED <<wasEarly, analyzed>>
  /\ UNCHANGED <<now, supportsWebLocks, nextId, owner, sessionId, newSessionId,
                 ourLock, waitFrom, forced, staleCleared, reloads, hist>>
  /\ UNCHANGED nonFlowVars

\* The session record of the catch block: the transcript handed to
\* handleInterviewEnd, no feedback field.
FallbackRecord ==
  [status |-> "incomplete", transcript |-> "finalTranscript", feedback |-> "none"]

\* the rejection of the catch block's saveSession was not caught
SaveFallbackDone_Uncaught(t, ok) ==
  /\ pc[t] = "save_fallback"
  /\ ok \in BOOLEAN
  /\ IF ok
     THEN ReleaseAndComplete(t)
     ELSE /\ pc' = [pc EXCEPT ![t] = "idle"]
          /\ UNCHANGED <<lock, webLockHolder, activeLockRelease, holders, flowState>>
  /\ savedStatus' = [savedStatus EXCEPT ![t] = IF ok THEN "incomplete" ELSE @]
  /\ sessions' = IF ok THEN Put(sessionId[t], FallbackRecord.status) ELSE sessions
  /\ UNCHANGED <<wasEarly, analyzed>>
  /\ UNCHANGED <<now, supportsWebLocks, nextId, owner, sessionId, newSessionId,
                 ourLock, waitFrom, forced, staleCleared, reloads, hist>>
  /\ UNCHANGED nonFlowVars

\* The catch block's saveSession settles either way (its rejection is caught).
SaveFallbackDone(t, ok) ==
  /\ pc[t] = "save_fallback"
  /\ ok \in BOOLEAN
  /\ ReleaseAndComplete(t)
  /\ savedStatus' = [savedStatus EXCEPT ![t] = IF ok THEN "incomplete" ELSE @]
  /\ sessions' = IF ok THEN Put(sessionId[t], FallbackRecord.status) ELSE sessions
  /\ UNCHANGED <<wasEarly, analyzed>>
  /\ UNCHANGED <<now, supportsWebLocks, nextId, owner, sessionId, newSessionId,
                 ourLock, waitFrom, forced, staleCleared, reloads, hist>>
  /\ UNCHANGED nonFlowVars

\* The tab's session id is cleared: it has no current session, hence no
\* stored record of it, and no handleInterviewEnd call in progress.  The
\* session store keeps what was saved.
NoRecordOfCurrentSession(t) ==
  /\ wasEarly' = [wasEarly EXCEPT ![t] = FALSE]
  /\ analyzed' = [analyzed EXCEPT ![t] = "none"]
  /\ savedStatus' = [savedStatus EXCEPT ![t] = "none"]
  /\ UNCHANGED sessions

\* handleStartNew, offered on the review of a COMPLETE interview.
HandleStartNew(t) ==
  /\ flowState[t] = "COMPLETE"
  /\ pc[t] = "idle"
  /\ sessionId' = [sessionId EXCEPT ![t] = NoId]
  /\ flowState' = [flowState EXCEPT ![t] = "UPLOAD"]
  /\ NoRecordOfCurrentSession(t)
  /\ UNCHANGED <<now, supportsWebLocks, lock, webLockHolder, activeLockRelease,
                 nextId, owner, pc, newSessionId, ourLock, waitFrom, holders,
                 forced, staleCleared, reloads, hist>>
  /\ UNCHANGED nonFlowVars

\* handleForceRelease, offered in BLOCKED: releaseLock(getBlockingSessionId()).
HandleForceRelease(t) ==
  /\ flowState[t] = "BLOCKED"
  /\ pc[t] = "idle"
  /\ LET blockingId == GetBlockingSessionId IN
     IF blockingId # NoId
     THEN /\ lock' = LockAfterRelease(blockingId)
          /\ webLockHolder' = HolderAfterRelease(t, blockingId)
          /\ activeLockRelease' = ReleaseFnAfterRelease(t, blockingId)
          /\ holders' = holders \ {blockingId}
          /\ forced' = TRUE
     ELSE UNCHANGED <<lock, webLockHolder, activeLockRelease, holders, forced>>
  /\ flowState' = [flowState EXCEPT ![t] = "UPLOAD"]
  /\ blockedBy' = [blockedBy EXCEPT ![t] = NoId]
  /\ UNCHANGED <<now, supportsWebLocks, nextId, owner, pc, sessionId,
                 newSessionId, ourLock, waitFrom, staleCleared, reloads,
                 raceIds, sawStale, lastStart>>
  /\ UNCHANGED nonLockVars

\* The page is reloaded: the browser releases the tab's Web Lock, the page's
\* module state and controller start afresh, the stored record stays.
Reload(t) ==
  /\ flowState[t] # "INITIAL"
  /\ reloads < MaxReloads
  /\ reloads' = reloads + 1
  /\ webLockHolder' = IF webLockHolder = t THEN NoTab ELSE webLockHolder
  /\ activeLockRelease' = [activeLockRelease EXCEPT ![t] = FALSE]
  /\ flowState' = [flowState EXCEPT ![t] = "INITIAL"]
  /\ pc' = [pc EXCEPT ![t] = "idle"]
  /\ sessionId' = [sessionId EXCEPT ![t] = NoId]
  /\ newSessionId' = [newSessionId EXCEPT ![t] = NoId]
  /\ ourLock' = [ourLock EXCEPT ![t] = NoLock]
  /\ waitFrom' = [waitFrom EXCEPT ![t] = 0]
  /\ sawStale' = [sawStale EXCEPT ![t] = FALSE]
  /\ blockedBy' = [blockedBy EXCEPT ![t] = NoId]
  /\ lastStart' = [lastStart EXCEPT ![t] = "none"]
  /\ holders' = {i \in holders : owner[i] # t}
  /\ NoRecordOfCurrentSession(t)
  /\ UNCHANGED <<now, supportsWebLocks, lock, nextId, owner, forced,
                 staleCleared, raceIds>>
  /\ UNCHANGED nonFlowVars

Next ==
  \/ \E d \in {VERIFY_MS, LOCK_TIMEOUT_MS} : Advance(d)
  \/ \E t \in Tabs :
       \/ MountCheck(t)
       \/ HandleSelectSavedResume(t)
       \/ HandleResumeConfirm(t)
       \/ HandleStartInterview(t)
       \/ WebLockCallback(t)
       \/ StorageWrite(t)
       \/ StorageSettle(t)
       \/ StorageVerify(t)
       \/ \E ok \in BOOLEAN : GenerateDone(t, ok)
       \/ \E ok \in BOOLEAN : SaveResumeDone(t, ok)
       \/ \E ok \in BOOLEAN : SaveSessionDone(t, ok)
       \/ RefreshLock(t)
       \/ HandleInterviewEnd(t)
       \/ \E ok \in BOOLEAN : AnalyzeDone(t, ok)
       \/ \E ok \in BOOLEAN : SaveFinalDone(t, ok)
       \/ \E ok \in BOOLEAN : SaveFallbackDone(t, ok)
       \/ HandleStartNew(t)
       \/ HandleForceRelease(t)
       \/ Reload(t)

Spec == Init /\ [][Next]_vars

\* ------------------------------------------------------- useQuestionTimer
\* The hook on its own: its options and resetTimer() are driven by its caller,
\* the interval's callback runs at any time while the interval exists.

\* The hook is mounted at time 0 by a panel that is not connected yet.
TimerInit ==
  /\ LockIdle(TRUE)
  /\ TimerIdle
  /\ TranscriptIdle
  /\ RequestIdle
  /\ ResumesIdle
  /\ EndIdle
  /\ HookIdle
  /\ PanelIdle

\* Time passes while the timer is mounted.
TimerAdvance(d) ==
  /\ now + d <= MaxSpans * QUESTION_TIME_LIMIT_MS
  /\ d = TICK_MS => (now % WRAP_UP_WARNING_THRESHOLD_MS) \div TICK_MS < MaxLateTicks
  /\ now' = now + d
  /\ idleFor' = IF intervalOn THEN idleFor ELSE idleFor + d
  /\ UNCHANGED <<supportsWebLocks, lock, webLockHolder, activeLockRelease, nextId,
                 owner, flowState, pc, sessionId, newSessionId, ourLock, waitFrom,
                 holders, forced, staleCleared, reloads, hist>>
  /\ UNCHANGED <<questionStartTime, closureStart, intervalOn, intervalSetAt, isActive,
                 isPaused, timeUpTriggeredRef, wrapUpWarningTriggeredRef, questionElapsed,
                 timeUpCalls, wrapUpCalls, timeUpEarly, timeUpMissed, wrapUpEarly,
                 wrapUpMissed, wrapUpAfterTimeUp>>
  /\ UNCHANGED nonTimerVars

\* The caller renders with another isActive / isPaused.
SetActive(b) ==
  /\ isActive # b
  /\ isActive' = b
  /\ UNCHANGED <<questionStartTime, closureStart, intervalOn, intervalSetAt, isPaused,
                 timeUpTriggeredRef, wrapUpWarningTriggeredRef, questionElapsed,
                 timeUpCalls, wrapUpCalls, timeUpEarly, timeUpMissed, wrapUpEarly,
                 wrapUpMissed, wrapUpAfterTimeUp, idleFor>>
  /\ UNCHANGED <<lockVars, nonTimerVars>>

SetPaused(b) ==
  /\ isPaused # b
  /\ isPaused' = b
  /\ UNCHANGED <<questionStartTime, closureStart, intervalOn, intervalSetAt, isActive,
                 timeUpTriggeredRef, wrapUpWarningTriggeredRef, questionElapsed,
                 timeUpCalls, wrapUpCalls, timeUpEarly, timeUpMissed, wrapUpEarly,
                 wrapUpMissed, wrapUpAfterTimeUp, idleFor>>
  /\ UNCHANGED <<lockVars, nonTimerVars>>

\* the effect returned early only when inactive: a paused timer kept its interval
TimerEffect_IgnoresPause ==
  /\ <<intervalOn, closureStart>> # <<isActive, questionStartTime>>
  /\ intervalOn' = isActive
  /\ closureStart' = questionStartTime
  /\ intervalSetAt' = IF isActive THEN now ELSE 0
  /\ UNCHANGED <<questionStartTime, isActive, isPaused, timeUpTriggeredRef,
                 wrapUpWarningTriggeredRef, questionElapsed, timeUpCalls,
                 wrapUpCalls, timeUpEarly, timeUpMissed, wrapUpEarly,
                 wrapUpMissed, wrapUpAfterTimeUp, idleFor>>
  /\ UNCHANGED <<lockVars, nonTimerVars>>

\* The timer effect runs again because one of its dependencies (isActive,
\* isPaused, questionStartTime) changed: the old interval is cleared, and
\* unless inactive or paused a new one is set whose callback reads the
\* questionStartTime of this render, first after TICK_MS.
TimerEffect ==
  /\ <<intervalOn, closureStart>> # <<isActive /\ ~isPaused, questionStartTime>>
  /\ intervalOn' = (isActive /\ ~isPaused)
  /\ closureStart' = questionStartTime
  /\ intervalSetAt' = IF isActive /\ ~isPaused THEN now ELSE 0
  /\ UNCHANGED <<questionStartTime, isActive, isPaused, timeUpTriggeredRef,
                 wrapUpWarningTriggeredRef, questionElapsed, timeUpCalls,
                 wrapUpCalls, timeUpEarly, timeUpMissed, wrapUpEarly,
                 wrapUpMissed, wrapUpAfterTimeUp, idleFor>>
  /\ UNCHANGED <<lockVars, nonTimerVars>>

\* What one run of the interval's callback decides.
TickElapsed == now - closureStart
TickWarns ==
  /\ QUESTION_TIME_LIMIT_MS - TickElapsed <= WRAP_UP_WARNING_THRESHOLD_MS
  /\ ~wrapUpWarningTriggeredRef
TickExpires == TickElapsed >= QUESTION_TIME_LIMIT_MS

\* One run of the interval's callback.  Once timeUpTriggeredRef is set it
\* returns at once; otherwise it shows the elapsed time, calls onWrapUpWarning
\* within the threshold (once per flag), and calls onTimeUp at the limit.
Tick ==
  /\ intervalOn
  /\ now >= intervalSetAt + TICK_MS
  /\ IF timeUpTriggeredRef
     THEN UNCHANGED <<timeUpTriggeredRef, wrapUpWarningTriggeredRef,
                      questionElapsed, timeUpCalls, wrapUpCalls, timeUpEarly,
                      timeUpMissed, wrapUpEarly, wrapUpMissed, wrapUpAfterTimeUp>>
     ELSE /\ questionElapsed' = TickElapsed
          /\ wrapUpWarningTriggeredRef' = (wrapUpWarningTriggeredRef \/ TickWarns)
          /\ timeUpTriggeredRef' = TickExpires
          /\ wrapUpCalls' = IF TickWarns /\ wrapUpCalls < 2
                            THEN wrapUpCalls + 1 ELSE wrapUpCalls
          /\ timeUpCalls' = IF TickExpires /\ timeUpCalls < 2
                            THEN timeUpCalls + 1 ELSE timeUpCalls
          /\ wrapUpEarly' = (wrapUpEarly \/
               (TickWarns /\ QUESTION_TIME_LIMIT_MS - (now - questionStartTime)
                               > WRAP_UP_WARNING_THRESHOLD_MS))
          /\ wrapUpMissed' = (wrapUpMissed \/
               (~TickWarns /\ wrapUpCalls = 0
                /\ QUESTION_TIME_LIMIT_MS - (now - questionStartTime)
                     <= WRAP_UP_WARNING_THRESHOLD_MS))
          /\ wrapUpAfterTimeUp' = (wrapUpAfterTimeUp \/ (TickWarns /\ timeUpCalls > 0))
          /\ timeUpEarly' = (timeUpEarly \/
               (TickExpires /\ now - questionStartTime < QUESTION_TIME_LIMIT_MS))
          /\ timeUpMissed' = (timeUpMissed \/
               (~TickExpires /\ now - questionStartTime >= QUESTION_TIME_LIMIT_MS))
  /\ UNCHANGED <<questionStartTime, closureStart, intervalOn, intervalSetAt,
                 isActive, isPaused, idleFor>>
  /\ UNCHANGED <<lockVars, nonTimerVars>>

\* resetTimer(): the anchor becomes now, the displayed time 0, both flags are
\* cleared; a new cycle starts.
ResetTimer ==
  /\ questionStartTime' = now
  /\ questionElapsed' = 0
  /\ timeUpTriggeredRef' = FALSE
  /\ wrapUpWarningTriggeredRef' = FALSE
  /\ timeUpCalls' = 0
  /\ wrapUpCalls' = 0
  /\ timeUpEarly' = FALSE
  /\ timeUpMissed' = FALSE
  /\ wrapUpEarly' = FALSE
  /\ wrapUpMissed' = FALSE
  /\ wrapUpAfterTimeUp' = FALSE
  /\ idleFor' = 0
  /\ UNCHANGED <<closureStart, intervalOn, intervalSetAt, isActive, isPaused>>
  /\ UNCHANGED <<lockVars, nonTimerVars>>

TimerNext ==
  \/ \E d \in {TICK_MS, WRAP_UP_WARNING_THRESHOLD_MS,
               QUESTION_TIME_LIMIT_MS - WRAP_UP_WARNING_THRESHOLD_MS} : TimerAdvance(d)
  \/ \E b \in BOOLEAN : SetActive(b)
  \/ \E b \in BOOLEAN : SetPaused(b)
  \/ TimerEffect
  \/ Tick
  \/ ResetTimer

TimerSpec == TimerInit /\ [][TimerNext]_vars

\* ---------------------------------------------- transcription aggregation
\* Text is a sequence of characters.  The characters fragments are made of:
\* a letter that is no filler ("I"), a filler letter, blank, full stop.
Alphabet == {"I", "m", " ", "."}
Fragments == UNION {[1..n -> Alphabet] : n \in 1..MaxFragLen}

Letters == {"a", "b", "c", "d", "e", "f", "g", "h", "i", "j", "k", "l", "m",
            "n", "o", "p", "q", "r", "s", "t", "u", "v", "w", "x", "y", "z",
            "A", "B", "C", "D", "E", "F", "G", "H", "I", "J", "K", "L", "M",
            "N", "O", "P", "Q", "R", "S", "T", "U", "V", "W", "X", "Y", "Z"}
WhiteSpace == {" ", "\t", "\n", "\r"}
Terminators == {".", "!", "?"}

\* The lower-case of the capitals the filler patterns can meet (flag i).
ToLower == ("U" :> "u") @@ ("M" :> "m") @@ ("H" :> "h") @@ ("A" :> "a") @@
           ("E" :> "e") @@ ("R" :> "r") @@ ("O" :> "o") @@ ("I" :> "i")
Lower(c) == IF c \in DOMAIN ToLower THEN ToLower[c] ELSE c

\* String.prototype.trim
Inked(str) == {i \in 1..Len(str) : str[i] \notin WhiteSpace}
First(S) == CHOOSE i \in S : \A j \in S : i <= j
Last(S) == CHOOSE i \in S : \A j \in S : i >= j
Trim(str) == IF Inked(str) = {} THEN <<>>
             ELSE SubSeq(str, First(Inked(str)), Last(Inked(str)))

\* SENTENCE_BOUNDARY_REGEX.test: /[.!?]\s*$/
SentenceBoundary(str) ==
  /\ Inked(str) # {}
  /\ str[Last(Inked(str))] \in Terminators

\* c+ from position k to the end of str
Run(str, k, c) == k <= Len(str) /\ \A i \in k..Len(str) : Lower(str[i]) = c
Starts(str, pre) ==
  /\ Len(str) >= Len(pre)
  /\ \A i \in 1..Len(pre) : Lower(str[i]) = pre[i]

\* FILLER_PATTERNS.test: /^(um+|uh+|hmm+|ah+|er+|oh+|huh|mhm+|mm+)\.?$/i
FillerWord(w) ==
  \/ Starts(w, <<"u">>) /\ Run(w, 2, "m")
  \/ Starts(w, <<"u">>) /\ Run(w, 2, "h")
  \/ Starts(w, <<"h", "m">>) /\ Run(w, 3, "m")
  \/ Starts(w, <<"a">>) /\ Run(w, 2, "h")
  \/ Starts(w, <<"e">>) /\ Run(w, 2, "r")
  \/ Starts(w, <<"o">>) /\ Run(w, 2, "h")
  \/ Len(w) = 3 /\ Starts(w, <<"h", "u", "h">>)
  \/ Starts(w, <<"m", "h">>) /\ Run(w, 3, "m")
  \/ Starts(w, <<"m">>) /\ Run(w, 2, "m")
IsFiller(str) ==
  \/ FillerWord(str)
  \/ Len(str) > 0 /\ str[Len(str)] = "." /\ FillerWord(SubSeq(str, 1, Len(str) - 1))

\* NOISE_PATTERNS.test: /^[^a-zA-Z]*$|^(.)\1{3,}$/
IsNoise(str) ==
  \/ \A i \in 1..Len(str) : str[i] \notin Letters
  \/ Len(str) >= 4 /\ \A i \in 1..Len(str) : str[i] = str[1]

MIN_MEANINGFUL_LENGTH == 2

\* filterTranscriptionNoise; <<>> stands for null (its caller tests
\* "if (filtered)", and it returns no empty string).
FilterTranscriptionNoise(text) ==
  LET trimmed == Trim(text) IN
  IF Len(trimmed) < MIN_MEANINGFUL_LENGTH THEN <<>>
  ELSE IF IsFiller(trimmed) THEN <<>>
  ELSE IF IsNoise(trimmed) THEN <<>>
  ELSE trimmed

\* The aggregator's working state while one server message is handled.
Aggregator == [inb |-> inputBufferRef, outb |-> outputBufferRef,
               tr |-> transcript, unread |-> unreadMessages]

\* addToTranscript: append; count as unread while the transcript is hidden.
Message(role, content) == [role |-> role, content |-> content, timestamp |-> now]

\* addToTranscript had it put the message first.
AddToTranscript_Prepend(st, role, content) ==
  [st EXCEPT !.tr = <<Message(role, content)>> \o @,
             !.unread = IF showTranscript THEN @ ELSE @ + 1]
AddToTranscript(st, role, content) ==
  [st EXCEPT !.tr = Append(@, Message(role, content)),
             !.unread = IF showTranscript THEN @ ELSE @ + 1]

\* onInputTranscript had it filtered every chunk before buffering it.
OnInputTranscript_FilterChunks(st, text, finished) ==
  LET buf == st.inb \o FilterTranscriptionNoise(text) IN
  IF finished \/ SentenceBoundary(buf)
  THEN LET filtered == FilterTranscriptionNoise(Trim(buf)) IN
       IF filtered # <<>>
       THEN [AddToTranscript(st, "user", filtered) EXCEPT !.inb = <<>>]
       ELSE [st EXCEPT !.inb = <<>>]
  ELSE [st EXCEPT !.inb = buf]

\* onInputTranscript: buffer the raw chunk; when finished or at a sentence
\* boundary filter the whole buffer, append what is left, empty the buffer.
OnInputTranscript(st, text, finished) ==
  LET buf == st.inb \o text IN
  IF finished \/ SentenceBoundary(buf)
  THEN LET filtered == FilterTranscriptionNoise(Trim(buf)) IN
       IF filtered # <<>>
       THEN [AddToTranscript(st, "user", filtered) EXCEPT !.inb = <<>>]
       ELSE [st EXCEPT !.inb = <<>>]
  ELSE [st EXCEPT !.inb = buf]

\* onOutputTranscript: the same for the assistant, trimmed but not filtered.
OnOutputTranscript(st, text, finished) ==
  LET buf == st.outb \o text IN
  IF finished \/ SentenceBoundary(buf)
  THEN IF Trim(buf) # <<>>
       THEN [AddToTranscript(st, "model", Trim(buf)) EXCEPT !.outb = <<>>]
       ELSE [st EXCEPT !.outb = <<>>]
  ELSE [st EXCEPT !.outb = buf]

\* flushInputBuffer: append the trimmed user buffer if not empty, empty it.
FlushInputBuffer(st) ==
  IF Trim(st.inb) # <<>>
  THEN [AddToTranscript(st, "user", Trim(st.inb)) EXCEPT !.inb = <<>>]
  ELSE [st EXCEPT !.inb = <<>>]

FlushOutputBuffer(st) ==
  IF Trim(st.outb) # <<>>
  THEN [AddToTranscript(st, "model", Trim(st.outb)) EXCEPT !.outb = <<>>]
  ELSE [st EXCEPT !.outb = <<>>]

FlushAllBuffers(st) == FlushOutputBuffer(FlushInputBuffer(st))

\* The parts a server message can carry, with a text of at most n characters;
\* a part without text is skipped.
Parts(n) == [text : {f \in Fragments : Len(f) <= n} \cup {<<>>}, finished : BOOLEAN]

\* The live session's onmessage while active: the user transcription, then
\* the assistant transcription after a flush of the user buffer, then the
\* flush of both buffers on turnComplete.
AfterInput(st, inp) ==
  IF inp.text # <<>> THEN OnInputTranscript(st, inp.text, inp.finished) ELSE st
AfterOutput_NoFlush(st, out) ==
  IF out.text # <<>>
  THEN OnOutputTranscript(st, out.text, out.finished)
  ELSE st
AfterOutput(st, out) ==
  IF out.text # <<>>
  THEN OnOutputTranscript(FlushInputBuffer(st), out.text, out.finished)
  ELSE st
AfterTurn(st, turnComplete) == IF turnComplete THEN FlushAllBuffers(st) ELSE st

\* The fragment of this message flushes the user buffer by itself.
FragmentFlushes(inp) ==
  inp.text # <<>> /\ (inp.finished \/ SentenceBoundary(received \o inp.text))

\* onmessage's transcription part: what it does to useTranscriptManager.
TranscriptionArrives(inp, out, turnComplete) ==
  /\ charsSeen + Len(inp.text) + Len(out.text) <= MaxChars
  /\ charsSeen' = charsSeen + Len(inp.text) + Len(out.text)
  /\ \E st \in {AfterTurn(AfterOutput(AfterInput(Aggregator, inp), out), turnComplete)} :
     /\ inputBufferRef' = st.inb
     /\ outputBufferRef' = st.outb
     /\ transcript' = st.tr
     /\ grew' = Len(st.tr) - Len(transcript)
     /\ unreadMessages' = st.unread
  /\ LET emptied == FragmentFlushes(inp) \/ out.text # <<>> \/ turnComplete IN
     /\ received' = IF emptied THEN <<>> ELSE received \o inp.text
     /\ runFrags' = IF emptied THEN 0
                    ELSE IF inp.text # <<>> THEN runFrags + 1 ELSE runFrags
  /\ heard' = received \o inp.text
  /\ flushedText' = IF FragmentFlushes(inp) THEN received \o inp.text ELSE <<>>
  /\ flushedFrags' = IF FragmentFlushes(inp) THEN runFrags + 1 ELSE 0
  /\ UNCHANGED showTranscript

OnMessage(inp, out, turnComplete) ==
  /\ inp.text # <<>> \/ out.text # <<>> \/ turnComplete
  /\ TranscriptionArrives(inp, out, turnComplete)
  /\ UNCHANGED <<lockVars, timerVars, nonTranscriptVars>>

\* toggleTranscript: show or hide; opening clears the unread count.
ToggleTranscript ==
  /\ showTranscript' = ~showTranscript
  /\ unreadMessages' = IF ~showTranscript THEN 0 ELSE unreadMessages
  /\ heard' = received
  /\ flushedText' = <<>>
  /\ flushedFrags' = 0
  /\ grew' = 0
  /\ UNCHANGED <<inputBufferRef, outputBufferRef, transcript, received, runFrags,
                 charsSeen>>
  /\ UNCHANGED <<lockVars, timerVars, nonTranscriptVars>>

\* A second passes with no message (Date.now() moves on).
Elapse ==
  /\ now < MaxLateTicks * TICK_MS
  /\ now' = now + TICK_MS
  /\ heard' = received
  /\ flushedText' = <<>>
  /\ flushedFrags' = 0
  /\ grew' = 0
  /\ UNCHANGED <<inputBufferRef, outputBufferRef, transcript, showTranscript,
                 unreadMessages, received, runFrags, charsSeen>>
  /\ UNCHANGED <<lockRest, timerVars, nonTranscriptVars>>

TranscriptInit ==
  /\ LockIdle(TRUE)
  /\ TimerIdle
  /\ TranscriptIdle
  /\ RequestIdle
  /\ ResumesIdle
  /\ EndIdle
  /\ HookIdle
  /\ PanelIdle

\* Some server message arrives.
ReceiveMessage ==
  \E inp \in Parts(MaxChars - charsSeen) :
    \E out \in Parts(MaxChars - charsSeen - Len(inp.text)) :
      \E turnComplete \in BOOLEAN : OnMessage(inp, out, turnComplete)

TranscriptNext ==
  \/ ReceiveMessage
  \/ ToggleTranscript
  \/ Elapse

TranscriptSpec == TranscriptInit /\ [][TranscriptNext]_vars

\* ---------------------------------------------------- useInterviewSession
\* The hook's refs and state as one record, so that a handler that calls
\* stopSession(), startSession() and the send functions one after the other
\* is the composition of what each does.
Hook ==
  [activeRef |-> activeRef, sessionClosingRef |-> sessionClosingRef,
   sessionRef |-> sessionRef, inputContextRef |-> inputContextRef,
   outputContextRef |-> outputContextRef, streamRef |-> streamRef,
   processorRef |-> processorRef, sourceRef |-> sourceRef,
   audioSourcesRef |-> audioSourcesRef, nextStartTimeRef |-> nextStartTimeRef,
   isConnected |-> isConnected, error |-> error, showMicRecovery |-> showMicRecovery,
   attempt |-> attempt, ctxClosed |-> ctxClosed, decoding |-> decoding,
   pending |-> pending, sent |-> <<>>, stopLeftClean |-> stopLeftClean,
   tornDown |-> tornDown, liveStreams |-> liveStreams, openContexts |-> openContexts,
   capturing |-> capturing, isMicOn |-> isMicOn, isMicOnRef |-> isMicOnRef,
   lastFrame |-> lastFrame, currentTime |-> currentTime, arrived |-> arrived,
   decodes |-> decodes, playback |-> playback, completes |-> completes]

\* The audio contexts of attempt a can still be looked at: by its own onopen,
\* or through the context refs. Those of a finished attempt that no ref holds
\* are garbage, and so is the record that a finished attempt was torn down.
Tracked(h, a) ==
  h.attempt[a] # "over" \/ a \in {h.inputContextRef, h.outputContextRef}

\* sendInterviewCompleteSignal's text reached a remote session.
IsComplete(m) == m.kind = "INTERVIEW_COMPLETE"

SetHook(h) ==
  /\ activeRef' = h.activeRef
  /\ sessionClosingRef' = h.sessionClosingRef
  /\ sessionRef' = h.sessionRef
  /\ inputContextRef' = h.inputContextRef
  /\ outputContextRef' = h.outputContextRef
  /\ streamRef' = h.streamRef
  /\ processorRef' = h.processorRef
  /\ sourceRef' = h.sourceRef
  /\ audioSourcesRef' = h.audioSourcesRef
  /\ nextStartTimeRef' = h.nextStartTimeRef
  /\ isConnected' = h.isConnected
  /\ error' = h.error
  /\ showMicRecovery' = h.showMicRecovery
  /\ attempt' = h.attempt
  /\ ctxClosed' = {a \in h.ctxClosed : Tracked(h, a)}
  /\ decoding' = h.decoding
  /\ pending' = h.pending
  /\ sent' = h.sent
  /\ stopLeftClean' = h.stopLeftClean
  /\ tornDown' = {a \in h.tornDown : h.attempt[a] # "over"}
  /\ liveStreams' = h.liveStreams
  /\ openContexts' = h.openContexts
  /\ capturing' = h.capturing
  /\ isMicOn' = h.isMicOn
  /\ isMicOnRef' = h.isMicOnRef
  /\ lastFrame' = h.lastFrame
  /\ currentTime' = h.currentTime
  /\ arrived' = h.arrived
  /\ decodes' = h.decodes
  /\ playback' = h.playback
  /\ completes' = Min(MaxCompletes, h.completes + Len(SelectSeq(h.sent, IsComplete)))

\* Where an attempt stands: "new" (not started), "mic" (suspended in
\* getUserMedia), "connecting" (ai.live.connect called, the socket not open
\* yet), "hung" (the socket is open, onopen threw, the session promise never
\* settles), "open" (the session promise is resolved), "closed" (the socket
\* is closed, onclose not delivered yet), "over" (startSession returned
\* without connecting, or the socket failed before it opened, or onclose was
\* delivered: nothing of the attempt is left to happen).
Unsettled == {"connecting", "hung"}
Resolved == {"open", "closed"}

CloseCall == [kind |-> "close", index |-> 0, mode |-> "none"]

\* session.sendClientContent of message m on the session of attempt a, with
\* what the three refs held when it ran.
Delivery(h, a, m) ==
  [to |-> a, kind |-> m.kind, index |-> m.index, mode |-> m.mode,
   active |-> h.activeRef, closing |-> h.sessionClosingRef, session |-> h.sessionRef]

\* The callback a send function queued on the session promise of attempt a:
\* the flags are looked at again, sendClientContent's failure on a closed
\* socket is caught.
RunSend(h, a, m) ==
  IF ~h.activeRef \/ h.sessionClosingRef
  THEN h
  ELSE IF h.attempt[a] = "open"
       THEN [h EXCEPT !.sent = Append(@, Delivery(h, a, m))]
       ELSE h

\* The callback stopSession() queued: session.close().
RunClose(h, a) ==
  IF h.attempt[a] = "open" THEN [h EXCEPT !.attempt[a] = "closed"] ELSE h

RunCallback(h, a, cb) ==
  IF cb.kind = "close" THEN RunClose(h, a) ELSE RunSend(h, a, cb)

\* The session promise of attempt a resolves: its callbacks run in the order
\* they were queued.
RECURSIVE RunAll(_, _, _)
RunAll(h, a, cbs) ==
  IF cbs = <<>> THEN h ELSE RunAll(RunCallback(h, a, Head(cbs)), a, Tail(cbs))

\* promise.then(cb) on the session promise of attempt a: queued while the
\* promise is unsettled, run at once (a microtask) when it is resolved,
\* dropped when it is rejected.
Then(h, a, cb) ==
  IF h.attempt[a] \in Unsettled
  THEN [h EXCEPT !.pending[a] = Append(@, cb)]
  ELSE IF h.attempt[a] \in Resolved THEN RunCallback(h, a, cb) ELSE h

\* sendQuestionContext, sendTimeUpSignal, sendWrapUpWarning and
\* sendInterviewCompleteSignal: the same guard around the same .then().
Send(h, m) ==
  IF h.sessionRef # NoAttempt /\ ~h.sessionClosingRef
  THEN Then(h, h.sessionRef, m)
  ELSE h

\* A source that stop() was not called on.
NotStopped == -1

\* audioSourcesRef.current.forEach(s => s.stop()) and .clear(): every source
\* the set holds is stopped, at the time its context's clock shows, and
\* leaves the set.
StopAll(sources, clock) ==
  {IF s.held THEN [s EXCEPT !.held = FALSE, !.stoppedAt = clock[s.ctx]] ELSE s : s \in sources}

\* The payloads still being decoded have been overtaken by a barge-in or a
\* stopSession().
Overtaken(ds) == {[d EXCEPT !.overtaken = TRUE] : d \in ds}

\* stopSession() had it return when the session is already marked closing.
StopSession_OnlyOnce(h) ==
  IF h.sessionClosingRef
  THEN [h EXCEPT !.activeRef = FALSE]
  ELSE LET flagged == [h EXCEPT !.sessionClosingRef = TRUE, !.activeRef = FALSE]
           closed == IF h.sessionRef = NoAttempt THEN flagged
                     ELSE Then(flagged, h.sessionRef, CloseCall)
       IN [closed EXCEPT !.sessionRef = NoAttempt,
                         !.audioSourcesRef = 0,
                         !.processorRef = NoAttempt,
                         !.sourceRef = NoAttempt,
                         !.streamRef = NoAttempt,
                         !.ctxClosed = @ \cup ({h.inputContextRef, h.outputContextRef}
                                                 \ {NoAttempt}),
                         !.inputContextRef = NoAttempt,
                         !.outputContextRef = NoAttempt,
                         !.liveStreams = @ \ {h.streamRef},
                         !.openContexts = @ \ {h.inputContextRef, h.outputContextRef},
                         !.capturing = @ \ {h.processorRef, h.inputContextRef},
                         !.playback = StopAll(@, h.currentTime),
                         !.decodes = Overtaken(@),
                         !.isConnected = FALSE,
                         !.nextStartTimeRef = 0]
\* stopSession(): both flags, session.close() queued on the session promise,
\* every ref torn down and nulled, isConnected false, the cursor at 0. Each
\* call that can throw is in its own try/catch. What the refs hold is what is
\* stopped, disconnected and closed; a processor in a closed context is
\* silent.
StopSession(h) ==
  LET flagged == [h EXCEPT !.sessionClosingRef = TRUE, !.activeRef = FALSE]
      closed == IF h.sessionRef = NoAttempt THEN flagged
                ELSE Then(flagged, h.sessionRef, CloseCall)
  IN [closed EXCEPT !.sessionRef = NoAttempt,
                    !.audioSourcesRef = 0,
                    !.processorRef = NoAttempt,
                    !.sourceRef = NoAttempt,
                    !.streamRef = NoAttempt,
                    !.ctxClosed = @ \cup ({h.inputContextRef, h.outputContextRef}
                                            \ {NoAttempt}),
                    !.inputContextRef = NoAttempt,
                    !.outputContextRef = NoAttempt,
                    !.liveStreams = @ \ {h.streamRef},
                    !.openContexts = @ \ {h.inputContextRef, h.outputContextRef},
                    !.capturing = @ \ {h.processorRef, h.inputContextRef},
                    !.playback = StopAll(@, h.currentTime),
                    !.decodes = Overtaken(@),
                    !.isConnected = FALSE,
                    !.nextStartTimeRef = 0]

\* What stopSession() is to leave behind.
TornDown(h) ==
  /\ ~h.isConnected
  /\ h.sessionRef = NoAttempt
  /\ h.streamRef = NoAttempt
  /\ h.processorRef = NoAttempt
  /\ h.sourceRef = NoAttempt
  /\ h.inputContextRef = NoAttempt
  /\ h.outputContextRef = NoAttempt
  /\ h.audioSourcesRef = 0
  /\ h.nextStartTimeRef = 0

\* A stopSession() call, with the record of what it found and left.
StopSessionCall(h) ==
  LET after == StopSession(h) IN
  [after EXCEPT !.stopLeftClean = @ /\ TornDown(after),
                !.tornDown = @ \cup {a \in Attempts : h.attempt[a] = "mic"}]

NewAttempts(h) == {a \in Attempts : h.attempt[a] = "new"}
NextAttempt(h) == CHOOSE a \in NewAttempts(h) : \A b \in NewAttempts(h) : a <= b

\* startSession() may be called: it returns at its guard, or an attempt is left.
CanStart(h) == h.activeRef \/ NewAttempts(h) # {}

\* startSession() up to its suspension in getUserMedia.
StartSession(h) ==
  IF h.activeRef
  THEN h
  ELSE [h EXCEPT !.error = "none",
                 !.activeRef = TRUE,
                 !.sessionClosingRef = FALSE,
                 !.inputContextRef = NextAttempt(h),
                 !.outputContextRef = NextAttempt(h),
                 !.openContexts = @ \cup {NextAttempt(h)},
                 !.attempt[NextAttempt(h)] = "mic"]

\* ------------------------------------------------------ MockInterviewPanel
\* The panel of tab 1 with its session hook, the flow's question index and the
\* end of the interview. The question timer is its interval and its two
\* flags; when a question's time runs out is left open.
PanelTab == 1

panelTimerRest == <<closureStart, intervalSetAt, questionElapsed, timeUpCalls,
                    wrapUpCalls, timeUpEarly, timeUpMissed, wrapUpEarly,
                    wrapUpMissed, wrapUpAfterTimeUp, idleFor>>

\* resetTimer() as the panel calls it.
PanelResetTimer ==
  /\ questionStartTime' = now
  /\ timeUpTriggeredRef' = FALSE
  /\ wrapUpWarningTriggeredRef' = FALSE

timerFlags == <<questionStartTime, timeUpTriggeredRef, wrapUpWarningTriggeredRef>>
timerOptions == <<isActive, isPaused, intervalOn>>

\* What a hook callback leaves alone outside the hook, the panel and the timer.
beyondPanel == <<lockVars, panelTimerRest, transcriptVars, requestVars, resumeVars, endVars>>

Question(idx, mode) == [kind |-> "QUESTION", index |-> idx, mode |-> mode]
Summary(t) == [kind |-> "SESSION_RECOVERED", index |-> Len(t), mode |-> "recovery"]
Signal(kind) == [kind |-> kind, index |-> 0, mode |-> "none"]

\* getUserMedia resolves for attempt a: startSession goes on if activeRef
\* says so, to ai.live.connect and sessionRef.current = sessionPromise.
MicGranted(a) ==
  /\ attempt[a] = "mic"
  /\ ~urgent
  /\ SetHook(IF ~activeRef
             THEN [Hook EXCEPT !.ctxClosed = @ \cup {a}, !.attempt[a] = "over",
                               !.openContexts = @ \ {a}]
             ELSE [Hook EXCEPT !.streamRef = a, !.attempt[a] = "connecting",
                               !.sessionRef = a, !.liveStreams = @ \cup {a}])
  /\ UNCHANGED <<timerFlags, timerOptions, panelVars, beyondPanel>>

\* getUserMedia rejects for attempt a: permission denied (the recovery
\* dialog, onMicBlocked pauses the panel) or another error (the catch block).
MicFailed(a, denied) ==
  /\ attempt[a] = "mic"
  /\ ~urgent
  /\ IF denied
     THEN /\ SetHook([Hook EXCEPT !.showMicRecovery = TRUE, !.activeRef = FALSE,
                                  !.ctxClosed = @ \cup {a}, !.attempt[a] = "over",
                                  !.openContexts = @ \ {a}])
          /\ isPaused' = TRUE
          /\ dirty' = TRUE
     ELSE /\ SetHook([Hook EXCEPT !.ctxClosed = @ \cup {a}, !.attempt[a] = "over",
                                  !.openContexts = @ \ {a},
                                  !.error = IF activeRef THEN "failed" ELSE @])
          /\ UNCHANGED isPaused
          /\ dirty' = (dirty \/ activeRef)
  /\ UNCHANGED <<mounted, urgent, lifecyclePaused, sessionDataRef, prevQuestionIndexRef,
                 questions, currentQuestionIndex, currentQuestionIndexRef, exhausted>>
  /\ UNCHANGED <<timerFlags, isActive, intervalOn, beyondPanel>>

\* handleConnected's reads of sessionDataRef.current.
IsRecovery == sessionDataRef.hasConnectedBefore /\ Len(sessionDataRef.transcript) > 0
\* q[idx] is undefined: buildQuestionContext throws on question.content.
NoSuchQuestion ==
  sessionDataRef.currentQuestionIndex >= Len(sessionDataRef.questions)

\* handleConnected's sends: on recovery the summary of the transcript, then
\* the question at the index, framed as recovery, first or next.
HandleConnectedSends(h) ==
  LET mode == IF IsRecovery THEN "recovery"
              ELSE IF ~sessionDataRef.hasConnectedBefore THEN "first" ELSE "next"
      summarised == IF IsRecovery THEN Send(h, Summary(sessionDataRef.transcript)) ELSE h
  IN IF NoSuchQuestion THEN summarised
     ELSE Send(summarised, Question(sessionDataRef.currentQuestionIndex, mode))

\* The session promise of attempt a resolves after onopen returned.
Resolve(h, a) ==
  RunAll([h EXCEPT !.attempt[a] = "open", !.pending[a] = <<>>], a, h.pending[a])

\* The socket of attempt a opens: onopen, i.e. nothing when inactive, else
\* isConnected, the panel's handleConnected and the capture graph; then the
\* session promise resolves and the callbacks queued on it run.
Onopen(a) ==
  /\ attempt[a] = "connecting"
  /\ ~urgent
  /\ IF ~activeRef
     THEN /\ SetHook(Resolve(Hook, a))
          /\ UNCHANGED <<timerFlags, panelVars>>
     ELSE /\ PanelResetTimer
          /\ sessionDataRef' = [sessionDataRef EXCEPT !.hasConnectedBefore = TRUE]
          /\ dirty' = TRUE
          /\ UNCHANGED <<mounted, urgent, lifecyclePaused, prevQuestionIndexRef, questions,
                         currentQuestionIndex, currentQuestionIndexRef, exhausted>>
          /\ \E told \in {HandleConnectedSends([Hook EXCEPT !.isConnected = TRUE])} :
               IF NoSuchQuestion
               THEN SetHook([told EXCEPT !.attempt[a] = "hung"])
               ELSE SetHook(Resolve(IF a \in ctxClosed THEN told
                                    ELSE [told EXCEPT !.sourceRef = a,
                                                      !.processorRef = a,
                                                      !.capturing = @ \cup {a}], a))
  /\ UNCHANGED <<timerOptions, beyondPanel>>

\* onclose and onerror while active: the session is marked closing,
\* isConnected false, the capture nodes disconnected, the error shown.
ConnectionLost(h, message) ==
  IF ~h.activeRef THEN h
  ELSE [h EXCEPT !.sessionClosingRef = TRUE, !.isConnected = FALSE,
                 !.processorRef = NoAttempt, !.sourceRef = NoAttempt,
                 !.capturing = @ \ {h.processorRef},
                 !.error = message]

\* The socket of attempt a closes (after session.close(), or dropped by the
\* network or the service): onclose.
Onclose(a) ==
  /\ attempt[a] \in {"open", "closed", "hung"}
  /\ ~urgent
  /\ SetHook(ConnectionLost([Hook EXCEPT !.attempt[a] = "over"], "lost"))
  /\ dirty' = (dirty \/ activeRef)
  /\ UNCHANGED <<mounted, urgent, lifecyclePaused, sessionDataRef, prevQuestionIndexRef,
                 questions, currentQuestionIndex, currentQuestionIndexRef, exhausted>>
  /\ UNCHANGED <<timerFlags, timerOptions, beyondPanel>>

\* The socket of attempt a fails: onerror; before it opened the session
\* promise never resolves, after it the close event follows.
Onerror(a) ==
  /\ attempt[a] \in {"connecting", "open", "hung"}
  /\ ~urgent
  /\ SetHook(ConnectionLost(
       IF attempt[a] = "open"
       THEN [Hook EXCEPT !.attempt[a] = "closed"]
       ELSE [Hook EXCEPT !.attempt[a] = "over", !.pending[a] = <<>>], "network"))
  /\ dirty' = (dirty \/ activeRef)
  /\ UNCHANGED <<mounted, urgent, lifecyclePaused, sessionDataRef, prevQuestionIndexRef,
                 questions, currentQuestionIndex, currentQuestionIndexRef, exhausted>>
  /\ UNCHANGED <<timerFlags, timerOptions, beyondPanel>>

\* What the panel's messages carry: a finished "I" of the user, or of the
\* assistant, or audio data, or the interruption.
Nothing == [text |-> <<>>, finished |-> FALSE]
Said == [text |-> <<"I">>, finished |-> TRUE]
PanelMessages ==
  {[inp |-> Said, out |-> Nothing, audio |-> "none"],
   [inp |-> Nothing, out |-> Said, audio |-> "none"],
   [inp |-> Nothing, out |-> Nothing, audio |-> "data"],
   [inp |-> Nothing, out |-> Nothing, audio |-> "interrupted"]}

\* onmessage of the session of attempt a while active: the transcription,
\* then the audio part up to the decodeAudioData it awaits, or the
\* interruption that clears the playback sources and the cursor.
Onmessage(a, inp, out, turnComplete, audio) ==
  /\ attempt[a] = "open"
  /\ activeRef
  /\ ~urgent
  /\ charsSeen + Len(inp.text) + Len(out.text) <= MaxPanelChars
  /\ audio = "data" => decoding = NoAttempt /\ audioSourcesRef = 0 /\ nextStartTimeRef = 0
  /\ TranscriptionArrives(inp, out, turnComplete)
  /\ SetHook(IF audio = "data"
             THEN IF outputContextRef = NoAttempt \/ outputContextRef \in ctxClosed
                  THEN Hook
                  ELSE [Hook EXCEPT !.decoding = outputContextRef]
             ELSE IF audio = "interrupted"
                  THEN [Hook EXCEPT !.audioSourcesRef = 0, !.nextStartTimeRef = 0]
                  ELSE Hook)
  /\ dirty' = (dirty \/ transcript' # transcript)
  /\ UNCHANGED <<mounted, urgent, lifecyclePaused, sessionDataRef, prevQuestionIndexRef,
                 questions, currentQuestionIndex, currentQuestionIndexRef, exhausted>>
  /\ UNCHANGED <<timerFlags, timerOptions, lockVars, panelTimerRest, requestVars,
                 resumeVars, endVars>>

\* decodeAudioData resolves: the source is created on the context the handler
\* captured, started at the cursor, the cursor moved, the source added.
AudioDecoded ==
  /\ decoding # NoAttempt
  /\ ~urgent
  /\ SetHook([Hook EXCEPT !.decoding = NoAttempt, !.nextStartTimeRef = 1,
                          !.audioSourcesRef = @ + 1])
  /\ UNCHANGED <<timerFlags, timerOptions, panelVars, beyondPanel>>

\* A playback source ends: onended deletes it from the set.
SourceEnded ==
  /\ audioSourcesRef > 0
  /\ ~urgent
  /\ SetHook([Hook EXCEPT !.audioSourcesRef = @ - 1])
  /\ UNCHANGED <<timerFlags, timerOptions, panelVars, beyondPanel>>

\* The interruption: the sources stopped, the set cleared, the cursor at 0.
Interrupted(h) ==
  [h EXCEPT !.playback = StopAll(@, h.currentTime), !.decodes = Overtaken(@),
            !.audioSourcesRef = 0, !.nextStartTimeRef = 0]

\* the source started at ctx.currentTime, whatever the cursor
Schedule_AtNow(h, d) ==
  LET startTime == h.currentTime[d.ctx] IN
  [h EXCEPT !.playback = @ \cup {[payload |-> d.payload, conn |-> d.conn, ctx |-> d.ctx,
                                  start |-> startTime, end |-> startTime + d.duration,
                                  held |-> TRUE, stoppedAt |-> NotStopped,
                                  overtaken |-> d.overtaken]},
            !.nextStartTimeRef = startTime + d.duration,
            !.audioSourcesRef = @ + 1]

\* The handler after its await: startTime = Math.max(nextStartTimeRef.current,
\* ctx.currentTime) on the context it captured, source.start(startTime), the
\* cursor at startTime + audioBuffer.duration, the source added to the set.
Schedule(h, d) ==
  LET startTime == Max(h.nextStartTimeRef, h.currentTime[d.ctx]) IN
  [h EXCEPT !.playback = @ \cup {[payload |-> d.payload, conn |-> d.conn, ctx |-> d.ctx,
                                  start |-> startTime, end |-> startTime + d.duration,
                                  held |-> TRUE, stoppedAt |-> NotStopped,
                                  overtaken |-> d.overtaken]},
            !.nextStartTimeRef = startTime + d.duration,
            !.audioSourcesRef = @ + 1]

\* decodeAudioData(audioData, ctx, 24000) of services/audioUtils, called for
\* the payload-th payload by onmessage of the session of attempt conn: the
\* decode is asynchronous, the promise it returns is pending and settles
\* later, with a buffer of the payload's duration or with a rejection. With
\* it waits the rest of the handler, which may have the interruption to see to.
DecodeAudioData(payload, conn, ctx, audioDuration, interrupted) ==
  [payload |-> payload, conn |-> conn, ctx |-> ctx, duration |-> audioDuration,
   interrupted |-> interrupted, overtaken |-> FALSE]

\* onmessage of the session of attempt a with an audio payload of the given
\* duration, and with or without the interruption, no transcription: it
\* returns when inactive or when the output context is gone or closed, else
\* it awaits decodeAudioData on that context. The interruption of a message
\* that awaits is handled after the await.
OnmessageAudio(a, audioDuration, interrupted) ==
  /\ attempt[a] = "open"
  /\ activeRef
  /\ ~urgent
  /\ arrived < MaxPayloads
  /\ TranscriptionArrives(Nothing, Nothing, FALSE)
  /\ SetHook(IF outputContextRef = NoAttempt \/ outputContextRef \in ctxClosed
             THEN [Hook EXCEPT !.arrived = @ + 1]
             ELSE [Hook EXCEPT !.arrived = @ + 1,
                               !.decodes = @ \cup {DecodeAudioData(arrived + 1, a,
                                                                    outputContextRef,
                                                                    audioDuration,
                                                                    interrupted)}])
  /\ UNCHANGED <<timerFlags, timerOptions, panelVars, lockVars, panelTimerRest,
                 requestVars, resumeVars, endVars>>

\* onmessage with the interruption and no audio: no await.
OnmessageInterrupted(a) ==
  /\ attempt[a] = "open"
  /\ activeRef
  /\ ~urgent
  /\ TranscriptionArrives(Nothing, Nothing, FALSE)
  /\ SetHook(Interrupted(Hook))
  /\ UNCHANGED <<timerFlags, timerOptions, panelVars, lockVars, panelTimerRest,
                 requestVars, resumeVars, endVars>>

\* The decodeAudioData of a payload settles, the decodes in flight in any
\* order: the handler goes on from its await without looking at activeRef
\* again, schedules the source (a rejection is caught and logged), then
\* handles the interruption its message carried.
DecodeSettles(d, ok) ==
  /\ d \in decodes
  /\ ~urgent
  /\ \E awaited \in {[Hook EXCEPT !.decodes = @ \ {d}]} :
     \E scheduled \in {IF ok THEN Schedule(awaited, d) ELSE awaited} :
       SetHook(IF d.interrupted THEN Interrupted(scheduled) ELSE scheduled)
  /\ UNCHANGED <<timerFlags, timerOptions, panelVars, beyondPanel>>

\* source.onended of a source that played to its end on its running context:
\* it is deleted from the set.
Onended(s) ==
  /\ s \in playback
  /\ s.held
  /\ s.ctx \in openContexts
  /\ currentTime[s.ctx] >= s.end
  /\ ~urgent
  /\ SetHook([Hook EXCEPT !.playback = (@ \ {s}) \cup {[s EXCEPT !.held = FALSE]},
                          !.audioSourcesRef = @ - 1])
  /\ UNCHANGED <<timerFlags, timerOptions, panelVars, beyondPanel>>

\* The clocks of the running audio contexts move on.
AudioClock ==
  /\ openContexts # {}
  /\ \A a \in openContexts : currentTime[a] < MaxAudioTime
  /\ SetHook([Hook EXCEPT !.currentTime = [a \in Attempts |->
                                             IF a \in openContexts THEN @[a] + 1 ELSE @[a]]])
  /\ UNCHANGED <<timerFlags, timerOptions, panelVars, beyondPanel>>

\* handleTimeUp and handleWrapUpWarning read the index from sessionDataRef.
IsLastQuestion ==
  sessionDataRef.currentQuestionIndex >= Len(sessionDataRef.questions) - 1

\* handleQuestionComplete: guarded by the flow's refs, a functional update.
AfterQuestionComplete ==
  IF currentQuestionIndexRef < Len(questions) - 1
  THEN currentQuestionIndex + 1
  ELSE currentQuestionIndex

\* A tick of the timer's interval with the time-up flag clear, in the last 30
\* seconds of the question or (expired) after them: the wrap-up warning once,
\* then on expiry the time-up flag, the panel's handleTimeUp and the flow's
\* handleQuestionComplete.
PanelTick(expired) ==
  /\ mounted
  /\ intervalOn
  /\ ~urgent
  /\ ~timeUpTriggeredRef
  /\ ~wrapUpWarningTriggeredRef \/ expired
  /\ wrapUpWarningTriggeredRef' = TRUE
  /\ timeUpTriggeredRef' = expired
  /\ \E warned \in {IF ~wrapUpWarningTriggeredRef /\ IsLastQuestion
                    THEN Send(Hook, Signal("WRAP_UP_WARNING")) ELSE Hook} :
       SetHook(IF ~expired THEN warned
               ELSE IF IsLastQuestion THEN Send(warned, Signal("INTERVIEW_COMPLETE"))
               ELSE Send(warned, Signal("TIME_UP")))
  /\ currentQuestionIndex' = IF expired THEN AfterQuestionComplete ELSE currentQuestionIndex
  /\ exhausted' = (exhausted \/ (expired /\ currentQuestionIndex = Len(questions) - 1))
  /\ dirty' = (dirty \/ currentQuestionIndex' # currentQuestionIndex)
  /\ UNCHANGED <<mounted, urgent, lifecyclePaused, sessionDataRef, prevQuestionIndexRef,
                 questions, currentQuestionIndexRef>>
  /\ UNCHANGED <<questionStartTime, timerOptions, beyondPanel>>

\* The lifecycle effect runs again when isPaused changed (on mount it runs
\* for the first time, without a cleanup).
PausedAs(b) == IF b THEN "paused" ELSE "running"
LifecycleRuns == lifecyclePaused # PausedAs(isPaused)
AfterLifecycle(h) ==
  IF ~LifecycleRuns THEN h
  ELSE LET cleaned == IF lifecyclePaused # "unmounted" THEN StopSessionCall(h) ELSE h
       IN IF ~isPaused THEN StartSession(cleaned) ELSE cleaned

\* The panel renders with the current state and its effects run in one
\* flush: the sessionDataRef and isMicOnRef syncs, the lifecycle effect (cleanup stopSession,
\* then startSession unless paused), the timer's effect, the question-change
\* effect (resetTimer, the next question's context if connected), and the
\* flow's ref sync.
Render ==
  /\ mounted
  /\ dirty
  /\ flowState[PanelTab] = "INTERVIEWING"
  /\ (LifecycleRuns /\ ~isPaused) => NewAttempts(Hook) # {}
  /\ sessionDataRef' = [sessionDataRef EXCEPT !.questions = questions,
                                              !.currentQuestionIndex = currentQuestionIndex,
                                              !.transcript = transcript]
  /\ lifecyclePaused' = PausedAs(isPaused)
  /\ isActive' = isConnected
  /\ intervalOn' = (isConnected /\ ~isPaused)
  /\ prevQuestionIndexRef' = currentQuestionIndex
  /\ IF prevQuestionIndexRef # currentQuestionIndex
     THEN PanelResetTimer
     ELSE UNCHANGED timerFlags
  /\ currentQuestionIndexRef' = currentQuestionIndex
  /\ \E cycled \in {AfterLifecycle(Hook)} :
       /\ SetHook([(IF /\ prevQuestionIndexRef # currentQuestionIndex
                       /\ isConnected
                       /\ currentQuestionIndex < Len(questions)
                    THEN Send(cycled, Question(currentQuestionIndex, "next"))
                    ELSE cycled) EXCEPT !.isMicOnRef = isMicOn])
       /\ dirty' = (cycled.isConnected # isConnected)
  /\ urgent' = FALSE
  /\ UNCHANGED <<mounted, questions, currentQuestionIndex, exhausted>>
  /\ UNCHANGED <<isPaused, beyondPanel>>

\* handleRetry, offered with the error: stopSession(); startSession().
HandleRetry ==
  /\ mounted
  /\ ~dirty
  /\ flowState[PanelTab] = "INTERVIEWING"
  /\ error # "none"
  /\ ~showMicRecovery
  /\ NewAttempts(Hook) # {}
  /\ SetHook(StartSession(StopSessionCall(Hook)))
  /\ dirty' = TRUE
  /\ urgent' = TRUE
  /\ UNCHANGED <<mounted, lifecyclePaused, sessionDataRef, prevQuestionIndexRef,
                 questions, currentQuestionIndex, currentQuestionIndexRef, exhausted>>
  /\ UNCHANGED <<timerFlags, timerOptions, beyondPanel>>

\* handleMicRetry, offered by the recovery dialog: the dialog is closed, the
\* panel unpaused, startSession().
HandleMicRetry ==
  /\ mounted
  /\ ~dirty
  /\ flowState[PanelTab] = "INTERVIEWING"
  /\ showMicRecovery
  /\ CanStart(Hook)
  /\ SetHook(StartSession([Hook EXCEPT !.showMicRecovery = FALSE]))
  /\ isPaused' = FALSE
  /\ dirty' = TRUE
  /\ urgent' = TRUE
  /\ UNCHANGED <<mounted, lifecyclePaused, sessionDataRef, prevQuestionIndexRef,
                 questions, currentQuestionIndex, currentQuestionIndexRef, exhausted>>
  /\ UNCHANGED <<timerFlags, isActive, intervalOn, beyondPanel>>

\* handleEndInterview (and handleMicRecoveryEnd, which closes the dialog
\* first): stopSession(), then the flow's handleInterviewEnd(transcript, true).
HandleEndInterview ==
  /\ mounted
  /\ ~dirty
  /\ InterviewEndBegins(PanelTab, TRUE)
  /\ SetHook(StopSessionCall([Hook EXCEPT !.showMicRecovery = FALSE]))
  /\ dirty' = TRUE
  /\ urgent' = TRUE
  /\ UNCHANGED <<mounted, lifecyclePaused, sessionDataRef, prevQuestionIndexRef,
                 questions, currentQuestionIndex, currentQuestionIndexRef, exhausted>>
  /\ UNCHANGED <<timerFlags, timerOptions, panelTimerRest, transcriptVars, requestVars,
                 resumeVars>>

\* The flow left INTERVIEWING: the panel unmounts, the cleanups of its
\* effects run (stopSession, clearInterval).
Unmount ==
  /\ mounted
  /\ flowState[PanelTab] # "INTERVIEWING"
  /\ mounted' = FALSE
  /\ dirty' = FALSE
  /\ urgent' = FALSE
  /\ intervalOn' = FALSE
  /\ SetHook(StopSessionCall(Hook))
  /\ UNCHANGED <<lifecyclePaused, sessionDataRef, prevQuestionIndexRef,
                 questions, currentQuestionIndex, currentQuestionIndexRef, exhausted>>
  /\ UNCHANGED <<timerFlags, isActive, isPaused, beyondPanel>>

\* the frame was sent whether or not the mic was enabled
Onaudioprocess_IgnoresMic(a) ==
  /\ a \in capturing
  /\ ~urgent
  /\ SetHook([Hook EXCEPT !.lastFrame =
       [to |-> a,
        outcome |-> IF ~activeRef \/ sessionClosingRef THEN "skipped"
                    ELSE IF attempt[a] = "open" THEN "sent" ELSE "swallowed",
        active |-> activeRef, closing |-> sessionClosingRef,
        micRef |-> isMicOnRef, mic |-> isMicOn, status |-> attempt[a]]])
  /\ UNCHANGED <<timerFlags, timerOptions, panelVars, beyondPanel>>

\* processor.onaudioprocess of attempt a with the .then() it queues on the
\* attempt's own session promise, which is resolved by then: the three flags
\* are looked at, the frame goes to sendRealtimeInput, whose failure on a
\* socket that is no longer open is caught.
Onaudioprocess(a) ==
  /\ a \in capturing
  /\ ~urgent
  /\ SetHook([Hook EXCEPT !.lastFrame =
       [to |-> a,
        outcome |-> IF ~activeRef \/ ~isMicOnRef \/ sessionClosingRef THEN "skipped"
                    ELSE IF attempt[a] = "open" THEN "sent" ELSE "swallowed",
        active |-> activeRef, closing |-> sessionClosingRef,
        micRef |-> isMicOnRef, mic |-> isMicOn, status |-> attempt[a]]])
  /\ UNCHANGED <<timerFlags, timerOptions, panelVars, beyondPanel>>

\* The socket of attempt a starts closing (the service or the network ends
\* it) and the close event is not delivered yet: what is sent on it from now
\* on fails or is discarded.
SocketCloses(a) ==
  /\ attempt[a] = "open"
  /\ ~urgent
  /\ SetHook([Hook EXCEPT !.attempt[a] = "closed"])
  /\ UNCHANGED <<timerFlags, timerOptions, panelVars, beyondPanel>>

\* onToggleMic: setIsMicOn(!isMicOn).
ToggleMic ==
  /\ mounted
  /\ ~dirty
  /\ flowState[PanelTab] = "INTERVIEWING"
  /\ SetHook([Hook EXCEPT !.isMicOn = ~isMicOn])
  /\ dirty' = TRUE
  /\ urgent' = TRUE
  /\ UNCHANGED <<mounted, lifecyclePaused, sessionDataRef, prevQuestionIndexRef,
                 questions, currentQuestionIndex, currentQuestionIndexRef, exhausted>>
  /\ UNCHANGED <<timerFlags, timerOptions, beyondPanel>>

\* The interview of tab 1 has just begun: it holds the lock, the in-progress
\* record is stored, the questions are whatever generateInterviewQuestions
\* returned (no length is checked), the panel has rendered for the first time.
PanelStart(k) ==
  /\ now = 0
  /\ supportsWebLocks = TRUE
  /\ lock = [sessionId |-> 1, lockedAt |-> 0]
  /\ webLockHolder = PanelTab
  /\ activeLockRelease = [t \in Tabs |-> t = PanelTab]
  /\ nextId = 1
  /\ owner = [i \in 1..(MaxSessions + 1) |-> IF i = 1 THEN PanelTab ELSE NoTab]
  /\ flowState = [t \in Tabs |-> IF t = PanelTab THEN "INTERVIEWING" ELSE "INITIAL"]
  /\ pc = [t \in Tabs |-> "idle"]
  /\ sessionId = [t \in Tabs |-> IF t = PanelTab THEN 1 ELSE NoId]
  /\ newSessionId = [t \in Tabs |-> IF t = PanelTab THEN 1 ELSE NoId]
  /\ ourLock = [t \in Tabs |-> NoLock]
  /\ waitFrom = [t \in Tabs |-> 0]
  /\ holders = {1}
  /\ forced = FALSE
  /\ staleCleared = FALSE
  /\ reloads = 0
  /\ raceIds = {}
  /\ sawStale = [t \in Tabs |-> FALSE]
  /\ blockedBy = [t \in Tabs |-> NoId]
  /\ lastStart = [t \in Tabs |-> IF t = PanelTab THEN "SETUP" ELSE "none"]
  /\ TimerIdle
  /\ TranscriptIdle
  /\ RequestIdle
  /\ ResumesIdle
  /\ wasEarly = [t \in Tabs |-> FALSE]
  /\ analyzed = [t \in Tabs |-> "none"]
  /\ savedStatus = [t \in Tabs |-> IF t = PanelTab THEN "in-progress" ELSE "none"]
  /\ sessions = [i \in 1..(MaxSessions + 1) |-> IF i = 1 THEN "in-progress" ELSE "none"]
  /\ HookIdleFor(k)
  /\ mounted = TRUE
  /\ dirty = TRUE
  /\ urgent = FALSE
  /\ lifecyclePaused = "unmounted"
  /\ \E n \in 0..MaxQuestions :
       /\ questions = [i \in 1..n |-> i]
       /\ sessionDataRef = [questions |-> [i \in 1..n |-> i], currentQuestionIndex |-> 0,
                            transcript |-> <<>>, hasConnectedBefore |-> FALSE]
  /\ prevQuestionIndexRef = 0
  /\ currentQuestionIndex = 0
  /\ currentQuestionIndexRef = 0
  /\ exhausted = FALSE

PanelInit == PanelStart(MaxPanelAttempts)

\* Nothing of the hook is left to happen.
Quiet ==
  /\ ~mounted
  /\ \A a \in Attempts : attempt[a] \in {"new", "over"}
  /\ decoding = NoAttempt
  /\ decodes = {}
  /\ audioSourcesRef = 0

\* The awaits of handleInterviewEnd settle. They touch nothing of the panel,
\* which is unmounted by then, so they are taken once the hook is quiet.
InterviewEndSettles ==
  /\ Quiet
  /\ \E ok \in BOOLEAN :
       \/ AnalyzeDone(PanelTab, ok)
       \/ SaveFinalDone(PanelTab, ok)
       \/ SaveFallbackDone(PanelTab, ok)

PanelNext ==
  \/ Render
  \/ \E a \in Attempts :
       \/ MicGranted(a)
       \/ \E denied \in BOOLEAN : MicFailed(a, denied)
       \/ Onopen(a)
       \/ Onclose(a)
       \/ Onerror(a)
       \/ \E m \in PanelMessages : Onmessage(a, m.inp, m.out, FALSE, m.audio)
  \/ AudioDecoded
  \/ SourceEnded
  \/ \E expired \in BOOLEAN : PanelTick(expired)
  \/ HandleRetry
  \/ HandleMicRetry
  \/ HandleEndInterview
  \/ Unmount
  \/ InterviewEndSettles

PanelSpec == PanelInit /\ [][PanelNext]_vars

\* The panel again with one more session to start, the service silent: the
\* connects, failures, retries, timer expiries and the end of the interview.
RetryInit == PanelStart(MaxAttempts)

RetryNext ==
  \/ Render
  \/ \E a \in Attempts :
       \/ MicGranted(a)
       \/ \E denied \in BOOLEAN : MicFailed(a, denied)
       \/ Onopen(a)
       \/ Onclose(a)
       \/ Onerror(a)
  \/ \E expired \in BOOLEAN : PanelTick(expired)
  \/ HandleRetry
  \/ HandleMicRetry
  \/ HandleEndInterview
  \/ Unmount
  \/ InterviewEndSettles

RetrySpec == RetryInit /\ [][RetryNext]_vars

\* The panel with its microphone: the audio frames of the capture graph and
\* the mic button, the service silent and the timer still.
CaptureInit == PanelStart(MaxPanelAttempts)

CaptureNext ==
  \/ Render
  \/ \E a \in Attempts :
       \/ MicGranted(a)
       \/ \E denied \in BOOLEAN : MicFailed(a, denied)
       \/ Onopen(a)
       \/ Onclose(a)
       \/ Onerror(a)
       \/ Onaudioprocess(a)
       \/ SocketCloses(a)
  \/ ToggleMic
  \/ HandleRetry
  \/ HandleMicRetry
  \/ HandleEndInterview
  \/ Unmount
  \/ InterviewEndSettles

CaptureSpec == CaptureInit /\ [][CaptureNext]_vars

\* The panel with its loudspeaker: the audio payloads of the service, their
\* decoding and playback on the output context, the barge-in, the retries
\* and the end of the interview up to the panel's unmount, the timer still;
\* a connection is lost by its onclose.
AudioInit == PanelStart(MaxAudioAttempts)

AudioNext ==
  \/ Render
  \/ \E a \in Attempts :
       \/ MicGranted(a)
       \/ Onopen(a)
       \/ Onclose(a)
       \/ \E audioDuration \in 1..MaxAudioLen, interrupted \in BOOLEAN :
            OnmessageAudio(a, audioDuration, interrupted)
       \/ OnmessageInterrupted(a)
  \/ \E d \in decodes, ok \in BOOLEAN : DecodeSettles(d, ok)
  \/ \E s \in playback : Onended(s)
  \/ AudioClock
  \/ HandleRetry
  \/ HandleEndInterview
  \/ Unmount

AudioSpec == AudioInit /\ [][AudioNext]_vars

\* ------------------------------------------------- number of questions
\* The duration picked on the setup screen (the picker offers 15, 30, 45 and
\* 60; the function takes any number of minutes).
SetDuration(d) ==
  /\ duration' = d
  /\ UNCHANGED <<targetQuestions, requestedFor>>
  /\ UNCHANGED <<lockVars, timerVars, transcriptVars, resumeVars, endVars, hookVars,
                 panelVars>>

MIN_QUESTIONS == 3

\* Math.max(3, Math.floor(durationMinutes / QUESTION_TIMEOUT_MINUTES)), with
\* min for max
TargetQuestions_Min(durationMinutes) ==
  IF MIN_QUESTIONS <= durationMinutes \div QUESTION_TIMEOUT_MINUTES
  THEN MIN_QUESTIONS ELSE durationMinutes \div QUESTION_TIMEOUT_MINUTES
\* Math.max(3, Math.floor(durationMinutes / QUESTION_TIMEOUT_MINUTES))
TargetQuestions(durationMinutes) ==
  Max(MIN_QUESTIONS, durationMinutes \div QUESTION_TIMEOUT_MINUTES)

\* generateInterviewQuestions up to its prompt: the number of questions.
GenerateInterviewQuestions ==
  /\ targetQuestions' = TargetQuestions(duration)
  /\ requestedFor' = duration
  /\ UNCHANGED duration
  /\ UNCHANGED <<lockVars, timerVars, transcriptVars, resumeVars, endVars, hookVars,
                 panelVars>>

RequestInit ==
  /\ LockIdle(TRUE)
  /\ TimerIdle
  /\ TranscriptIdle
  /\ RequestIdle
  /\ ResumesIdle
  /\ EndIdle
  /\ HookIdle
  /\ PanelIdle

RequestNext ==
  \/ \E d \in 0..MaxDuration : SetDuration(d)
  \/ GenerateInterviewQuestions

RequestSpec == RequestInit /\ [][RequestNext]_vars

\* ------------------------------------------------------- the resume store
\* Strings are sequences of characters; a resume is its name and its skills.
\* String.prototype.charCodeAt for the characters the resumes are made of.
CharCode == ("A" :> 65) @@ ("E" :> 69) @@ ("a" :> 97) @@ ("e" :> 101) @@
            (" " :> 32) @@ ("," :> 44) @@ ("|" :> 124)

\* String.prototype.toLowerCase
ToLowerCase(str) == [i \in 1..Len(str) |-> Lower(str[i])]

\* The order Array.prototype.sort() puts strings in when no comparator is
\* given: by UTF-16 code units, a proper prefix first.
CodeUnitsBefore(s, t) ==
  \E i \in 1..Len(t) :
    /\ \A j \in 1..(i - 1) : j <= Len(s) /\ s[j] = t[j]
    /\ IF i > Len(s) THEN TRUE ELSE CharCode[s[i]] < CharCode[t[i]]

\* Array.prototype.join(',')
RECURSIVE Join(_)
Join(list) ==
  IF list = <<>> THEN <<>>
  ELSE IF Len(list) = 1 THEN Head(list)
       ELSE Head(list) \o <<",">> \o Join(Tail(list))

\* generateResumeId's normalized string: the name lowercased and trimmed, a
\* bar, and the skills sorted, joined, and then lowercased.
Normalized(resume) ==
  Trim(ToLowerCase(resume.name)) \o <<"|">>
    \o ToLowerCase(Join(SortSeq(resume.skills, CodeUnitsBefore)))

\* hash = ((hash << 5) - hash) + char; hash = hash | 0, i.e. 31 * hash + char
\* in 32 bits, the hash kept as its upper and lower 16 bits.
HashStep(hash, char) ==
  LET low == 31 * hash[2] + char
      high == 31 * hash[1] + low \div 65536
  IN <<high % 65536, low % 65536>>

RECURSIVE HashCode(_)
HashCode(str) ==
  IF str = <<>> THEN <<0, 0>>
  ELSE HashStep(HashCode(SubSeq(str, 1, Len(str) - 1)), CharCode[str[Len(str)]])

\* Math.abs of the 32-bit signed integer with these bits (2^31 for -2^31),
\* again as two halves. toString(36) and the "resume_" prefix keep distinct
\* numbers distinct.
MathAbs(hash) ==
  IF hash[1] < 32768 THEN hash
  ELSE IF hash[2] = 0 THEN <<65536 - hash[1], 0>>
       ELSE <<65535 - hash[1], 65536 - hash[2]>>

GenerateResumeId(resume) == MathAbs(HashCode(Normalized(resume)))

\* The resumes that are saved: a name and up to MaxSkills skills.
ResumeNames == {<<"A">>, <<"a">>, <<"a", " ">>, <<"E">>}
ResumeSkills == {<<"A">>, <<"a">>, <<"E">>, <<"e">>}
Resumes ==
  [name : ResumeNames, skills : UNION {[1..n -> ResumeSkills] : n \in 0..MaxSkills}]

\* saveResume(resume): the id and Date.now() are taken and the transaction is
\* created in one go after openDatabase(); in the transaction store.get(id),
\* then store.put of the record with the createdAt of the one found, else
\* now, and lastUsed now. A failed request rejects and nothing is written.
SaveResume(resume, ok) ==
  /\ resumeSaves < MaxSaves
  /\ resumeSaves' = resumeSaves + 1
  /\ LET id == GenerateResumeId(resume)
         existing == {x \in resumes : x.id = id}
     IN resumes' = IF ~ok THEN resumes
                   ELSE (resumes \ existing) \cup
                          {[id |-> id, data |-> resume,
                            createdAt |-> IF existing = {} THEN now
                                          ELSE (CHOOSE x \in existing : TRUE).createdAt,
                            lastUsed |-> now]}
  /\ UNCHANGED <<lockVars, timerVars, transcriptVars, requestVars, endVars, hookVars,
                 panelVars>>

\* Date.now() moves on.
ResumeClock ==
  /\ now < MaxResumeTime
  /\ now' = now + 1
  /\ UNCHANGED lockRest
  /\ UNCHANGED <<timerVars, nonTimerVars>>

ResumeInit ==
  /\ LockIdle(TRUE)
  /\ TimerIdle
  /\ TranscriptIdle
  /\ RequestIdle
  /\ ResumesIdle
  /\ EndIdle
  /\ HookIdle
  /\ PanelIdle

ResumeNext ==
  \/ \E resume \in Resumes, ok \in BOOLEAN : SaveResume(resume, ok)
  \/ ResumeClock

ResumeSpec == ResumeInit /\ [][ResumeNext]_vars

\* ------------------------------------------------------------------ claims

\* acquireLock of tab t has returned, and what it returned
JustWon(t) == pc[t] = "generate" /\ sessionId[t] = newSessionId[t]
JustLost(t) == flowState[t] = "BLOCKED" /\ pc[t] = "idle" /\ newSessionId[t] # NoId

\* C1: with no force release and no stale record cleared, at most one session
\* id is a holder (its acquireLock returned true and it has not released).
C1_AtMostOneHolder ==
  (~forced /\ ~staleCleared) => Cardinality(holders) <= 1

\* C2: of two acquireLock calls that both passed the check before either wrote
\* its record, exactly one returns true, and the tab of the other then finds
\* isBlocked() true.
C2_ExactlyOneRacerWins ==
  \A t, u \in Tabs :
    (/\ t # u
     /\ raceIds = {newSessionId[t], newSessionId[u]}
     /\ JustWon(t) \/ JustLost(t)
     /\ JustWon(u) \/ JustLost(u))
    => /\ JustWon(t) # JustWon(u)
       /\ IsBlockedResult

\* C3: an acquireLock call that found a stale record of another session, with
\* no other call in flight or started since and no force release, returns true.
C3_StaleLockAcquirable ==
  \A t \in Tabs :
    (sawStale[t] /\ nextId = newSessionId[t] /\ ~forced) => ~JustLost(t)

\* C4: acquireLock(id) called while a record of another session exists that is
\* younger than the staleness timeout returns false (the flow goes to BLOCKED)
\* and leaves the stored record as it was.
C4_BlockedAcquireLeavesRecord ==
  [][\A t \in Tabs :
       (/\ HandleStartInterview(t)
        /\ lock.sessionId # NoId
        /\ lock.sessionId # nextId + 1
        /\ now - lock.lockedAt < LOCK_TIMEOUT_MS)
       => (/\ lock' = lock
           /\ flowState'[t] = "BLOCKED"
           /\ pc'[t] = "idle"
           /\ sessionId'[t] = sessionId[t])]_vars

\* C4 witness: a tab was sent to BLOCKED by the check, the record that blocked
\* it is still there and is another session's.
C4_Witness ==
  \E t \in Tabs :
    /\ flowState[t] = "BLOCKED"
    /\ blockedBy[t] # NoId
    /\ blockedBy[t] # newSessionId[t]
    /\ lock.sessionId = blockedBy[t]
    /\ ~IsStale(lock)

\* C5: when handleInterviewEnd has taken the flow to COMPLETE, the session's
\* lock is released: the stored record is not the session's and the tab does
\* not hold the Web Lock.
C5_CompleteReleasesLock ==
  \A t \in Tabs :
    flowState[t] = "COMPLETE"
    => /\ ~(HasLock /\ lock.sessionId = sessionId[t])
       /\ webLockHolder # t

\* C6: a handleStartInterview invoked from GEN_ERROR is not sent to BLOCKED by
\* the record of the same tab's failed attempt.
C6_RetryNotBlockedByOwnLock ==
  \A t \in Tabs :
    ~(/\ flowState[t] = "BLOCKED"
      /\ lastStart[t] = "GEN_ERROR"
      /\ blockedBy[t] # NoId
      /\ owner[blockedBy[t]] = t)

\* C7: after the force-release action no session holds the lock: no record that
\* blocks, and no tab holding the Web Lock.
C7_ForceReleaseFreesLock ==
  [][\A t \in Tabs :
       HandleForceRelease(t) => (~IsBlockedResult' /\ webLockHolder' = NoTab)]_vars

\* C8: within one resetTimer() cycle onTimeUp is called at most once, only by a
\* tick at which now - anchor >= limit, by the first evaluated tick for which
\* that holds, and from then on the flag that makes every later tick return at
\* once stays set until resetTimer().
C8_TimeUpOnceAtLimit ==
  /\ timeUpCalls <= 1
  /\ ~timeUpEarly
  /\ ~timeUpMissed
  /\ (timeUpCalls > 0 => timeUpTriggeredRef)

\* C9: within one resetTimer() cycle onWrapUpWarning is called at most once,
\* only by a tick at which limit - (now - anchor) <= 30 s, by the first
\* evaluated tick for which that holds, and never after onTimeUp of the cycle.
C9_WrapUpOnceAtThreshold ==
  /\ wrapUpCalls <= 1
  /\ ~wrapUpEarly
  /\ ~wrapUpMissed
  /\ ~wrapUpAfterTimeUp

\* The user's messages of a transcript, in order.
IsUserMessage(m) == m.role = "user"
UserMessages(tr) == SelectSeq(tr, IsUserMessage)

\* C10: a user fragment that is neither finished nor completes a sentence is
\* only buffered; the fragment that is finished or makes the buffer end in
\* sentence-terminal punctuation appends exactly one user message, whose
\* content is the trimmed concatenation of all fragments of the run in arrival
\* order, provided that concatenation passes the noise filter.
C10_OneMessageForAllFragments ==
  [][/\ runFrags' = runFrags + 1 => transcript' = transcript
     /\ (flushedFrags' > 0 /\ FilterTranscriptionNoise(Trim(flushedText')) # <<>>)
          => UserMessages(transcript') =
               Append(UserMessages(transcript),
                      [role |-> "user", content |-> Trim(flushedText'),
                       timestamp |-> now])]_vars

\* "I", "m", "." : three fragments, the first a lone letter, one message.
C10_Witness ==
  /\ flushedFrags = 3
  /\ flushedText = <<"I", "m", ".">>
  /\ transcript = <<[role |-> "user", content |-> <<"I", "m", ".">>,
                     timestamp |-> 0]>>

\* C11: whichever path flushed it, no user message of the transcript is text
\* the noise filter discards (shorter than 2 characters, a filler token, no
\* letters, 4+ repeats of one character).
C11_NoNoiseInTranscript ==
  \A i \in 1..Len(transcript) :
    transcript[i].role = "user"
      => FilterTranscriptionNoise(transcript[i].content) # <<>>

\* The messages a step appended.
Appended == SubSeq(transcript', Len(transcript) + 1, Len(transcript'))

\* C12: a step that appends an assistant message leaves the user buffer empty,
\* appends no user message after the assistant's, and has appended before it
\* the user text received so far in the run (unless the run's own final
\* fragment had the filter discard it).
C12_UserTextBeforeAssistant ==
  [][(\E i \in 1..Len(Appended) : Appended[i].role = "model")
       => /\ inputBufferRef' = <<>>
          /\ \A i, j \in 1..Len(Appended) :
               (Appended[i].role = "model" /\ Appended[j].role = "user") => j < i
          /\ Trim(heard') # <<>>
               => \/ \E j \in 1..Len(Appended) :
                       /\ Appended[j].role = "user"
                       /\ Appended[j].content = Trim(heard')
                  \/ flushedFrags' > 0 /\ FilterTranscriptionNoise(heard') = <<>>]_vars

\* the user said "I" without a finished signal, the assistant's "m." followed
C12_Witness ==
  /\ Len(transcript) = 2
  /\ transcript[1].role = "user" /\ transcript[1].content = <<"I">>
  /\ transcript[2].role = "model"
  /\ flushedFrags = 0
  /\ heard = <<"I">>

NonDecreasing(tr) ==
  \A i, j \in 1..Len(tr) : i <= j => tr[i].timestamp <= tr[j].timestamp

\* What a step delivered to the remote session of attempt a.
DeliveredTo(a) ==
  LET ToA(m) == m.to = a IN SelectSeq(sent', ToA)

\* The socket of attempt a opens while the hook is active, after an earlier
\* connect of the interview, the transcript not empty.
RecoveryConnect(a) ==
  /\ attempt[a] = "connecting"
  /\ attempt'[a] \in {"open", "closed", "hung"}
  /\ activeRef
  /\ sessionDataRef.hasConnectedBefore
  /\ transcript # <<>>

\* C13: on a connect that follows an earlier connect of the interview, the
\* transcript not empty, the remote session is sent the [SESSION_RECOVERED]
\* summary and after it the [QUESTION] context, which is of the current
\* question index and framed as continuing after the interruption; no step of
\* the interview drops or changes a transcript message, and the timestamps
\* are non-decreasing along the transcript.
C13_RecoveryBeforeQuestion ==
  [][/\ \A a \in Attempts :
          RecoveryConnect(a) =>
            \E i, j \in 1..Len(DeliveredTo(a)) :
              /\ i < j
              /\ DeliveredTo(a)[i].kind = "SESSION_RECOVERED"
              /\ DeliveredTo(a)[j].kind = "QUESTION"
              /\ DeliveredTo(a)[j].index = currentQuestionIndex
              /\ DeliveredTo(a)[j].mode = "recovery"
              /\ \A k \in 1..Len(DeliveredTo(a)) :
                   DeliveredTo(a)[k].kind = "QUESTION" => k = j
     /\ flowState[PanelTab] = "INTERVIEWING"
          => /\ SubSeq(transcript', 1, Len(transcript)) = transcript
             /\ NonDecreasing(transcript')]_vars

\* C14: every stopSession() call so far, whether from End Interview, a retry,
\* the lifecycle effect's cleanup or the unmount, and whatever call came before
\* it, returned and left isConnected false, no session reference, no capture
\* stream, no processing nodes, no audio contexts, no playback source and the
\* scheduling cursor at 0.
C14_StopSessionIdempotent == stopLeftClean

\* End Interview stopped an open session, the unmount's cleanup stopped again.
C14_Witness ==
  /\ ~mounted
  /\ stopLeftClean
  /\ sessionClosingRef
  /\ \E a \in Attempts : attempt[a] = "closed" /\ a \in ctxClosed

\* C15: an attempt that stopSession() tore down while it waited for the
\* capture permission never goes on to ai.live.connect, whether or not a newer
\* attempt has started since.
C15_TornDownNeverConnects ==
  \A a \in tornDown : attempt[a] \notin {"connecting", "hung", "open", "closed"}

\* C16: whatever a send function delivers to a remote session, it delivers
\* while a session is referenced, the session is not marked closing and the
\* connection is active, as found when the queued send runs; in any other
\* state it delivers nothing.
C16_SendsAreNoOps ==
  \A i \in 1..Len(sent) :
    sent[i].active /\ ~sent[i].closing /\ sent[i].session # NoAttempt

\* C17: the stored record of a finished interview has status completed when
\* the final question's timer had expired and the feedback was generated, and
\* incomplete when the interview was ended before that or the analysis or the
\* final save failed.
C17_FinalStatus ==
  [][/\ (pc[PanelTab] = "save_final" /\ flowState'[PanelTab] = "COMPLETE")
          => savedStatus'[PanelTab] = IF exhausted THEN "completed" ELSE "incomplete"
     /\ (pc[PanelTab] = "save_fallback" /\ savedStatus'[PanelTab] # savedStatus[PanelTab])
          => savedStatus'[PanelTab] = "incomplete"]_vars

\* C18: while an interview runs, the question index is at least 0 and below
\* the number of questions.
C18_IndexInRange ==
  flowState[PanelTab] = "INTERVIEWING"
    => currentQuestionIndex >= 0 /\ currentQuestionIndex < Len(questions)

\* C19: the number of questions asked for is never below 3; above 3 it is the
\* whole number of 3-minute slots in the duration; it is 3 for every duration
\* under 12 minutes and 10 for 30 minutes.
C19_QuestionCount ==
  requestedFor >= 0 =>
    /\ targetQuestions >= 3
    /\ targetQuestions > 3 =>
         /\ 3 * targetQuestions <= requestedFor
         /\ requestedFor < 3 * targetQuestions + 3
    /\ requestedFor < 12 => targetQuestions = 3
    /\ requestedFor = 30 => targetQuestions = 10

C19_Witness == requestedFor = 30 /\ targetQuestions = 10

\* C20 as stated: every operation leaves the transcript unchanged or appends
\* one message at its end; what was there stays as it was, and timestamps are
\* non-decreasing along the sequence.
C20_AppendsOneMessage ==
  [][/\ Len(transcript') <= Len(transcript) + 1
     /\ SubSeq(transcript', 1, Len(transcript)) = transcript
     /\ NonDecreasing(transcript')]_vars

\* C20, amended: every operation leaves the transcript unchanged or appends at
\* its end one message, or two when it flushes both buffers (the user's then
\* the assistant's); what was there stays as it was, and timestamps are
\* non-decreasing along the sequence.
C20_AppendOnly ==
  [][/\ Len(transcript') >= Len(transcript)
     /\ Len(transcript') <= Len(transcript) + 2
     /\ SubSeq(transcript', 1, Len(transcript)) = transcript
     /\ Len(Appended) = 2 => Appended[1].role = "user" /\ Appended[2].role = "model"
     /\ NonDecreasing(transcript')]_vars

\* A message of an earlier second, then one step that appended two.
C20_Witness ==
  /\ grew = 2
  /\ Len(transcript) = 3
  /\ transcript[1].timestamp < transcript[2].timestamp
  /\ transcript[2].role = "user"
  /\ transcript[3].role = "model"

\* Tab t's acquireLockWithLocalStorage resumes after the settle wait and finds
\* the record of another session.
SettlesOnConflict(t) ==
  /\ pc[t] = "acq_settle"
  /\ pc'[t] # "acq_settle"
  /\ flowState'[t] # "INITIAL"
  /\ HasLock
  /\ lock.sessionId # newSessionId[t]

\* Tab t's acquireLockWithLocalStorage resumes after the verify wait.
Verifies(t) ==
  /\ pc[t] = "acq_verify"
  /\ pc'[t] # "acq_verify"
  /\ flowState'[t] # "INITIAL"

\* C21: a session that finds another session's record after the settle wait
\* wins exactly when its lockedAt is earlier, or equal with the smaller id;
\* the winner rewrites its record and goes on to the verify wait, after which
\* acquireLock returns true exactly when the record still shows its id; the
\* loser leaves the record as it is and acquireLock returns false.
C21_DeterministicResolution ==
  [][\A t \in Tabs :
       /\ SettlesOnConflict(t) =>
            IF \/ ourLock[t].lockedAt < lock.lockedAt
               \/ /\ ourLock[t].lockedAt = lock.lockedAt
                  /\ ourLock[t].sessionId < lock.sessionId
            THEN lock' = ourLock[t] /\ pc'[t] = "acq_verify"
            ELSE lock' = lock /\ flowState'[t] = "BLOCKED" /\ pc'[t] = "idle"
       /\ Verifies(t) =>
            /\ lock' = lock
            /\ IF lock.sessionId = newSessionId[t]
               THEN pc'[t] = "generate" /\ sessionId'[t] = newSessionId[t]
               ELSE flowState'[t] = "BLOCKED" /\ pc'[t] = "idle"]_vars

\* One tab won the resolution and rewrote its record, the other has lost.
C21_Witness ==
  \E t, u \in Tabs :
    /\ pc[t] = "acq_verify"
    /\ lock = ourLock[t]
    /\ JustLost(u)

\* C22: while a tab is INTERVIEWING the stored lock record exists, is not
\* stale and names that interview's session id.
C22_InterviewHoldsFreshLock ==
  \A t \in Tabs :
    flowState[t] = "INTERVIEWING"
      => HasLock /\ ~IsStale(lock) /\ lock.sessionId = sessionId[t]

\* C23: per session id the status in the session store only moves forward:
\* in-progress may become completed or incomplete, and a stored completed or
\* incomplete is never changed by a later write.
C23_StatusMonotonic ==
  [][\A i \in 1..MaxSessions :
       /\ sessions[i] \in {"completed", "incomplete"} => sessions'[i] = sessions[i]
       /\ sessions[i] = "in-progress"
            => sessions'[i] \in {"in-progress", "completed", "incomplete"}]_vars

\* a tab's ended session is stored with its final status while its next
\* session has been stored as in progress
C23_Witness ==
  \E i \in 1..MaxSessions, j \in 1..MaxSessions :
    /\ i < j /\ owner[i] = owner[j]
    /\ sessions[i] \in {"completed", "incomplete"}
    /\ sessions[j] = "in-progress"

\* the start of an interview: its state and its awaits
StartStates == {"SETUP", "GEN_ERROR", "GENERATING"}

\* C24: a flow enters INTERVIEWING only from GENERATING, and only through, in
\* this order, acquireLock returning true for the new id, the questions being
\* returned, and the initial snapshot (in-progress, index 0, empty transcript)
\* being stored; when acquireLock returns false the flow is BLOCKED, requests
\* no questions and has no stored session.
C24_InterviewEnteredInOrder ==
  [][\A t \in Tabs :
       /\ (flowState'[t] = "INTERVIEWING" /\ flowState[t] # "INTERVIEWING")
            => /\ flowState[t] = "GENERATING"
               /\ pc[t] = "save_session"
               /\ sessionId[t] = newSessionId[t]
               /\ sessions'[sessionId[t]] = "in-progress"
               /\ InitialSnapshot.currentQuestionIndex = 0
               /\ InitialSnapshot.transcript = <<>>
       /\ (pc'[t] = "save_session" /\ pc[t] # "save_session") => pc[t] = "save_resume"
       /\ (pc'[t] = "save_resume" /\ pc[t] # "save_resume") => pc[t] = "generate"
       /\ (pc'[t] = "generate" /\ pc[t] # "generate")
            => /\ pc[t] \in AcqPcs
               /\ flowState[t] = "GENERATING"
               /\ sessionId'[t] = newSessionId[t]
               /\ newSessionId[t] \in holders'
               /\ sessions[newSessionId[t]] = "none"
       /\ (flowState'[t] = "BLOCKED" /\ flowState[t] \in StartStates)
            => /\ pc'[t] = "idle"
               /\ sessions'[newSessionId'[t]] = "none"
       /\ JustLost(t) => sessions[newSessionId[t]] = "none"]_vars

\* one tab is in its interview with the snapshot stored, another was refused
\* the lock and is BLOCKED
C24_Witness ==
  \E t \in Tabs, u \in Tabs :
    /\ flowState[t] = "INTERVIEWING" /\ sessions[sessionId[t]] = "in-progress"
    /\ JustLost(u) /\ blockedBy[u] = sessionId[t]

\* C25: when the feedback request fails, handleInterviewEnd goes on to save the
\* record without feedback (status incomplete, the transcript it was given),
\* and when that save settles, stored or rejected, the flow is COMPLETE; from
\* ANALYZING the flow goes nowhere else but by a reload of the page.
C25_CompleteWithoutFeedback ==
  [][\A t \in Tabs :
       /\ (analyzed[t] = "none" /\ analyzed'[t] = "failed") => pc'[t] = "save_fallback"
       /\ (pc[t] = "save_fallback" /\ pc'[t] # "save_fallback" /\ reloads' = reloads)
            => /\ flowState'[t] = "COMPLETE"
               /\ sessions'[sessionId[t]] \in {"incomplete", sessions[sessionId[t]]}
               /\ \A i \in 1..MaxSessions : i # sessionId[t] => sessions'[i] = sessions[i]
               /\ FallbackRecord.transcript = "finalTranscript"
               /\ FallbackRecord.feedback = "none"
       /\ (flowState[t] = "ANALYZING" /\ reloads' = reloads)
            => flowState'[t] \in {"ANALYZING", "COMPLETE"}]_vars

\* the feedback request failed, the record was stored as incomplete and the
\* flow is COMPLETE
C25_Witness ==
  \E t \in Tabs :
    /\ flowState[t] = "COMPLETE" /\ analyzed[t] = "failed"
    /\ sessions[sessionId[t]] = "incomplete"

\* the same with the fallback save rejected: the stored record is still the
\* initial snapshot
C25_SaveRejected ==
  \E t \in Tabs :
    /\ flowState[t] = "COMPLETE" /\ analyzed[t] = "failed"
    /\ sessions[sessionId[t]] = "in-progress"

\* The directives handleTimeUp handed to a session in this step: delivered,
\* or queued on a session promise that is still unsettled.
Queued(a) == SubSeq(pending'[a], Len(pending[a]) + 1, Len(pending'[a]))
RECURSIVE Concat(_)
Concat(ss) == IF ss = <<>> THEN <<>> ELSE Head(ss) \o Concat(Tail(ss))
Handed ==
  [i \in 1..Len(sent') |-> [kind |-> sent'[i].kind, index |-> sent'[i].index]]
    \o Concat([a \in Attempts |->
                 IF Len(pending'[a]) > Len(pending[a])
                 THEN [i \in 1..Len(Queued(a)) |->
                         [kind |-> Queued(a)[i].kind, index |-> Queued(a)[i].index]]
                 ELSE <<>>])
IsDirective(m) == m.kind # "WRAP_UP_WARNING"
Expiry == timeUpTriggeredRef' /\ ~timeUpTriggeredRef
QuestionChangeEffect ==
  prevQuestionIndexRef # currentQuestionIndex /\ prevQuestionIndexRef' = currentQuestionIndex

\* C26: when a question's time expires on the final question, only
\* [INTERVIEW_COMPLETE] is sent and the index stays; otherwise [TIME_UP] is
\* sent and the index goes up by one, and the render that follows resets the
\* timer and, if the connection is open, sends the [QUESTION] of the new index.
C26_TimeUpAdvances ==
  [][/\ Expiry =>
          IF currentQuestionIndex >= Len(questions) - 1
          THEN /\ SelectSeq(Handed, IsDirective) = <<[kind |-> "INTERVIEW_COMPLETE", index |-> 0]>>
               /\ currentQuestionIndex' = currentQuestionIndex
          ELSE /\ SelectSeq(Handed, IsDirective) = <<[kind |-> "TIME_UP", index |-> 0]>>
               /\ currentQuestionIndex' = currentQuestionIndex + 1
     /\ QuestionChangeEffect =>
          /\ questionStartTime' = now /\ ~timeUpTriggeredRef'
          /\ isConnected' =>
               Handed = <<[kind |-> "QUESTION", index |-> currentQuestionIndex]>>]_vars

\* onopen of some attempt ran past its activeRef guard in this step.
Connects ==
  activeRef /\ \E a \in Attempts : attempt[a] = "connecting" /\ attempt'[a] \in {"open", "hung"}
IsFirstForm(m) == m.kind = "QUESTION" /\ m.mode = "first"
Firsts(s) == Len(SelectSeq(s, IsFirstForm))
RECURSIVE QueuedFirsts(_, _)
QueuedFirsts(p, a) == IF a = 0 THEN 0 ELSE Firsts(p[a]) + QueuedFirsts(p, a - 1)
\* the first-question directives a step hands to a session: delivered or
\* queued after it, less those that were queued before it
FirstsHanded ==
  Firsts(sent') + QueuedFirsts(pending', MaxAttempts) - QueuedFirsts(pending, MaxAttempts)

\* C27: the "begin with this first question" form of [QUESTION] is sent on the
\* first connect of the interview, once, and on no later connect; every
\* connect resets the question timer, and does so before it sends anything.
C27_FirstQuestionOnce ==
  [][/\ FirstsHanded # 0 => (Connects /\ ~sessionDataRef.hasConnectedBefore)
     /\ (Connects /\ ~sessionDataRef.hasConnectedBefore)
          => (FirstsHanded = 1 /\ sessionDataRef'.hasConnectedBefore)
     /\ Connects => (questionStartTime' = now /\ ~timeUpTriggeredRef'
                     /\ ~wrapUpWarningTriggeredRef')]_vars

\* a startSession() call passed its guard in this step
StartsSession == \E a \in Attempts : attempt[a] = "new" /\ attempt'[a] = "mic"
\* onclose or onerror ran past its activeRef guard in this step
Loses == activeRef /\ \E a \in Attempts : Onclose(a) \/ Onerror(a)

\* C28: an audio frame reaches the remote session only when, at that moment,
\* the connection is active, the session is not marked closing, the mic is
\* enabled and the socket is open; onclose and onerror mark the session
\* closing, the mark stays until the next startSession(), and meanwhile no
\* frame and no directive is sent; a frame that meets a socket that is no
\* longer open is dropped and changes nothing.
C28_NoFrameWhenMutedOrClosing ==
  [][/\ lastFrame'.outcome = "sent"
          => /\ lastFrame'.active /\ ~lastFrame'.closing
             /\ lastFrame'.micRef /\ lastFrame'.mic
             /\ lastFrame'.status = "open"
     /\ lastFrame' # lastFrame
          => /\ lastFrame'.outcome = "sent"
                  <=> (activeRef /\ ~sessionClosingRef /\ isMicOn
                       /\ attempt[lastFrame'.to] = "open")
             /\ error' = error /\ isConnected' = isConnected /\ attempt' = attempt
             /\ sessionClosingRef' = sessionClosingRef /\ activeRef' = activeRef
     /\ Loses => sessionClosingRef'
     /\ (sessionClosingRef /\ ~sessionClosingRef') => StartsSession
     /\ sessionClosingRef
          => /\ (lastFrame' # lastFrame => lastFrame'.outcome # "sent")
             /\ sent' = <<>>]_vars

\* a frame was sent on the open session, and later one was dropped because
\* the mic had been switched off
C28_Witness ==
  /\ lastFrame.outcome = "skipped" /\ ~lastFrame.micRef
  /\ lastFrame.active /\ ~lastFrame.closing /\ lastFrame.status = "open"

\* a frame was dropped after onclose or onerror had marked the session closing
C28_AfterLoss ==
  /\ lastFrame.outcome = "skipped" /\ lastFrame.closing /\ lastFrame.active

\* a frame was sent
C28_Sent == lastFrame.outcome = "sent"

\* a frame met a socket that was closed already
C28_Swallowed == lastFrame.outcome = "swallowed"

\* The connection was lost and the caller has not stopped the session since.
Lost == activeRef /\ sessionClosingRef
\* the caller's stopSession(): Retry, End, the lifecycle effect's cleanup
CallerStops == HandleRetry \/ HandleEndInterview \/ Unmount \/ (Render /\ LifecycleRuns)
ConnectBegins == \E a \in Attempts : attempt[a] # "connecting" /\ attempt'[a] = "connecting"

\* C29: onclose or onerror of an active session leaves it disconnected with
\* the error shown, and it stays so, with no connect begun, until the caller
\* stops the session (and starts it again).
C29_NoAutomaticRetry ==
  [][/\ Loses => (~isConnected' /\ error' \in {"lost", "network"})
     /\ (Lost /\ ~CallerStops)
          => (~isConnected' /\ error' # "none" /\ ~ConnectBegins /\ ~StartsSession)]_vars

\* C30: once the panel is unmounted (the last stopSession) and nothing of the
\* hook is left to happen, no capture stream is live and no audio context is
\* open; at any time the live streams and open contexts are those the refs
\* hold, so that teardown reaches them.
C30_NothingLeftOpen ==
  /\ Quiet => (liveStreams = {} /\ openContexts = {})
  /\ liveStreams \subseteq {streamRef}
  /\ openContexts \subseteq ({inputContextRef} \cup {a \in Attempts : attempt[a] = "mic"})

\* ------------------------------------------------------------------ C31
\* Until when a source sounds on its context's clock: to its end, or to the
\* stop() that cut it short (not at all when stopped before its start).
Until(s) ==
  IF s.stoppedAt = NotStopped THEN s.end
  ELSE IF s.stoppedAt <= s.start THEN s.start
       ELSE IF s.stoppedAt < s.end THEN s.stoppedAt ELSE s.end

Sounds(s) == s.start < Until(s)

NonOverlapping(sources) ==
  \A s, t \in sources :
    (s # t /\ s.ctx = t.ctx /\ Sounds(s) /\ Sounds(t))
      => (Until(s) <= t.start \/ Until(t) <= s.start)

\* The payload whose decode settled in this step and was scheduled.
Scheduled == playback' \ {[s EXCEPT !.held = h, !.stoppedAt = at] :
                            s \in playback, h \in BOOLEAN,
                            at \in {NotStopped} \cup 0..MaxAudioTime}

\* C31: every payload that is scheduled starts at max(nextStartTimeRef, now)
\* on its context and leaves the cursor at its end (at 0 when its own message
\* carried the interruption); when it is scheduled no later than the cursor
\* it starts exactly at the cursor; and the intervals in which the sources
\* of one context sound never overlap.
C31_GaplessNonOverlapping ==
  [][/\ \A s \in Scheduled :
          /\ s.start = Max(nextStartTimeRef, currentTime[s.ctx])
          /\ s.end > s.start
          /\ currentTime[s.ctx] <= nextStartTimeRef => s.start = nextStartTimeRef
          /\ nextStartTimeRef' = IF s.stoppedAt = NotStopped THEN s.end ELSE 0
     /\ NonOverlapping(playback')]_vars

\* Two payloads were scheduled back to back on one running context, and a
\* third source on that context started with a gap.
C31_Witness ==
  \E s, t \in playback :
    /\ s.ctx = t.ctx
    /\ s.ctx \in openContexts
    /\ t.start = s.end
    /\ Sounds(s) /\ Sounds(t)
    /\ s.stoppedAt = NotStopped /\ t.stoppedAt = NotStopped

\* A payload was scheduled after its context's clock had passed the cursor.
C31_Late == \E s, t \in playback : s.ctx = t.ctx /\ t.start > s.end /\ Sounds(s) /\ Sounds(t)

\* ------------------------------------------------------------------ C32
\* A barge-in or a stopSession() is handled in this step.
Silences ==
  \/ \E a \in Attempts : OnmessageInterrupted(a)
  \/ \E d \in decodes, ok \in BOOLEAN : d.interrupted /\ DecodeSettles(d, ok)
  \/ HandleRetry
  \/ HandleEndInterview
  \/ Unmount

\* C32: a step that handles a barge-in or a stopSession() leaves the set of
\* playback sources empty and the cursor at 0, and no payload whose decode
\* was pending when one was handled is scheduled afterwards.
C32_NothingScheduledAfterSilence ==
  [][/\ Silences => /\ audioSourcesRef' = 0
                    /\ nextStartTimeRef' = 0
                    /\ \A s \in playback' : ~s.held
     /\ \A s \in Scheduled : ~s.overtaken]_vars

\* The silencing part alone: the set empty and the cursor at 0.
C32_SilencedAtOnce ==
  [][Silences => /\ audioSourcesRef' = 0
                 /\ nextStartTimeRef' = 0
                 /\ \A s \in playback' : ~s.held]_vars

EffectRan == ~ENABLED TimerEffect

LowerSkills(resume) ==
  LET low == [i \in 1..Len(resume.skills) |-> ToLowerCase(resume.skills[i])]
  IN [sk \in {low[i] : i \in 1..Len(low)} |->
        Cardinality({i \in 1..Len(low) : low[i] = sk})]

\* The names differ at most in letter case and surrounding blanks, the skill
\* lists at most in order and letter case.
SameResume(r, q) ==
  /\ Trim(ToLowerCase(r.name)) = Trim(ToLowerCase(q.name))
  /\ LowerSkills(r) = LowerSkills(q)

\* C34: a saveResume of a resume that differs from a stored one at most in
\* the case of its name and the order and case of its skills writes the
\* record of the stored one's id, with the createdAt it had and lastUsed
\* now, and adds no record: no two stored resumes are the same in that sense.
C34_SameResumeSameId ==
  [][\A resume \in Resumes :
       SaveResume(resume, TRUE) =>
         /\ \A x \in resumes :
              SameResume(x.data, resume) =>
                /\ GenerateResumeId(resume) = x.id
                /\ \E y \in resumes' :
                     /\ y.id = x.id
                     /\ y.data = resume
                     /\ y.createdAt = x.createdAt
                     /\ y.lastUsed = now
                /\ Cardinality(resumes') = Cardinality(resumes)
         /\ \A x, y \in resumes' : SameResume(x.data, y.data) => x = y]_vars

\* ------------------------------------------------------------------ C35
\* C35: a tab whose acquireLock returned true and that has not released the
\* lock since is in GENERATING, INTERVIEWING or ANALYZING.
C35_LockHeldOnlyWhileBusy ==
  \A id \in holders :
    flowState[owner[id]] \in {"GENERATING", "INTERVIEWING", "ANALYZING"}

\* ------------------------------------------------------------------ C36
\* C36: with Web Locks, the releaseLock(currentSessionId) at the end of
\* handleInterviewEnd in the tab that holds the Web Lock relinquishes it,
\* whatever has become of the stored record: the tab does not hold the Web
\* Lock after its own release.
C36_ReleaseRelinquishesWebLock ==
  [][\A t \in Tabs :
       (supportsWebLocks /\ webLockHolder = t /\ ReleaseAndComplete(t))
         => webLockHolder' # t]_vars

\* ------------------------------------------------------------------ C40
SessionIds == 1..MaxSessions

\* C40: releaseLock(id) and refreshLock(id) with an id that is not the one of
\* the stored record leave the record as it is, and refreshLock returns
\* false; refreshLock(id) with the id of the record returns true and leaves
\* a record of the same sessionId whose lockedAt is not smaller than before.
C40_OnlyOwnerTouchesRecord ==
  \A id \in SessionIds :
    LET refreshed == RefreshLockOutcome(id) IN
    IF ReleaseMatches(id)
    THEN /\ refreshed.ok
         /\ refreshed.lock.sessionId = lock.sessionId
         /\ refreshed.lock.lockedAt >= lock.lockedAt
    ELSE /\ LockAfterRelease(id) = lock
         /\ ~refreshed.ok
         /\ refreshed.lock = lock

\* An interview whose refresh interval finds the record of another session,
\* written after its own.
C40_Witness ==
  \E t \in Tabs :
    /\ flowState[t] = "INTERVIEWING"
    /\ sessionId[t] # NoId
    /\ HasLock
    /\ lock.sessionId # sessionId[t]
    /\ lock.lockedAt < now

\* ------------------------------------------------------------------ C37
\* C37: the remote sessions of one interview are delivered the
\* [INTERVIEW_COMPLETE] directive at most once, whatever ticks, connection
\* drops and reconnects follow the expiry of the final question's timer.
C37_CompleteAtMostOnce == completes <= 1

\* ------------------------------------------------------------------ C38
IsWrapUp(m) == m.kind = "WRAP_UP_WARNING"
WrapUps(ms) == Len(SelectSeq(ms, IsWrapUp))
RECURSIVE QueuedWrapUps(_, _)
QueuedWrapUps(p, a) == IF a = 0 THEN 0 ELSE WrapUps(p[a]) + QueuedWrapUps(p, a - 1)
TimerTicks == \E expired \in BOOLEAN : PanelTick(expired)
FinalQuestion == currentQuestionIndex = Len(questions) - 1

====
